---- MODULE Spec2Model ----
(***************************************************************************)
(* A model of the coderev indexing pipeline and of its SQLite graph store. *)
(*                                                                         *)
(* Text values (paths, names, URI strings) are sequences of tokens: every  *)
(* separator character the URI grammar reacts to ("#", "/", "@", ":") is   *)
(* a token of its own, every other run of characters is one token.         *)
(* Confidences and similarities are percentages (100 stands for 1.0).      *)
(***************************************************************************)
EXTENDS Bags, FiniteSets, Integers, Sequences, TLC

VARIABLES
    store,      \* the SQLite database: one field per table
    disk,       \* the indexed directory: path -> content on disk
    now,        \* seconds read from the system clock
    phase,      \* position of the index command
    todo,       \* regular files the parallel walker has not handed out yet
    chan,       \* messages sent on the mpsc channel and not yet received
    senders,    \* live Sender handles (the original plus one clone per worker)
    coord,      \* the coordinator thread: pc, message in hand, seen_paths
    stats,      \* IndexingStats of the current run
    runs,       \* index commands started so far
    edits,      \* changes made to the directory so far
    hist        \* observations kept for stating the properties

vars == <<store, disk, now, phase, todo, chan, senders, coord, stats, runs, edits, hist>>

\* ---------------------------------------------------------------- bounds
MaxRuns == 2
MaxEdits == 1
MaxIndexed == 3
MaxStageA == 2

\* ------------------------------------------------------- text and tokens
Min(a, b) == IF a <= b THEN a ELSE b

\* index of the first occurrence of token c in s, 0 when absent
FirstIndex(s, c) ==
    IF \E i \in 1..Len(s) : s[i] = c
    THEN CHOOSE i \in 1..Len(s) : s[i] = c /\ \A j \in 1..(i - 1) : s[j] # c
    ELSE 0

\* index of the last occurrence of token c in s, 0 when absent
LastIndex(s, c) ==
    IF \E i \in 1..Len(s) : s[i] = c
    THEN CHOOSE i \in 1..Len(s) : s[i] = c /\ \A j \in (i + 1)..Len(s) : s[j] # c
    ELSE 0

Before(s, i) == SubSeq(s, 1, i - 1)

After(s, i) == SubSeq(s, i + 1, Len(s))

SymbolKinds == {"namespace", "container", "callable", "value", "document"}

\* SymbolKind::from_str on a token sequence: one of the accepted words, else "err"
SymbolKindFromStr(s) ==
    IF Len(s) # 1 THEN "err"
    ELSE IF s[1] \in {"namespace", "ns", "module", "package", "file"} THEN "namespace"
    ELSE IF s[1] \in {"container", "class", "struct", "trait", "interface"} THEN "container"
    ELSE IF s[1] \in {"callable", "function", "method", "fn", "def"} THEN "callable"
    ELSE IF s[1] \in {"value", "field", "variable", "var", "const", "let"} THEN "value"
    ELSE IF s[1] \in {"document", "doc", "chunk", "text"} THEN "document"
    ELSE "err"

\* decimal rendering of the line numbers the model uses
Digits == <<"1", "2", "3", "4">>

LineToStr(n) == Digits[n]

\* u32::from_str on a token sequence: the number, or 0 for a parse error
LineFromStr(s) ==
    IF Len(s) = 1 /\ \E n \in 1..Len(Digits) : Digits[n] = s[1]
    THEN CHOOSE n \in 1..Len(Digits) : Digits[n] = s[1]
    ELSE 0

\* SymbolUri::new
SymbolUri(repo, path, kind, name, line) ==
    [repo |-> repo, path |-> path, kind |-> kind, name |-> name, line |-> line]

\* SymbolUri::to_uri_string: codescope://<repo>/<path>#<kind>:<name>@<line>
to_uri_string(u) ==
    <<"codescope://">> \o u.repo \o <<"/">> \o u.path \o <<"#">> \o <<u.kind>>
        \o <<":">> \o u.name \o <<"@">> \o <<LineToStr(u.line)>>

UriErr == [err |-> TRUE]

\* str::split_once / rsplit_once at index i (0: the separator is absent)
SplitAt(s, i) == IF i = 0 THEN {} ELSE {<<Before(s, i), After(s, i)>>}

SplitOnce(s, c) == SplitAt(s, FirstIndex(s, c))

RSplitOnce(s, c) == SplitAt(s, LastIndex(s, c))

Pair(o) == CHOOSE x \in o : TRUE

\* SymbolUri::parse, last step: SymbolKind::from_str and the line number
ParseFields(repo_path, kind, name, line) ==
    IF kind = "err" \/ line = 0 THEN UriErr
    ELSE SymbolUri(repo_path[1], repo_path[2], kind, name, line)

\* SymbolUri::parse: kind_name.split_once(':')
ParseFragment(repo_path, kind_name, line) ==
    IF kind_name = {} THEN UriErr
    ELSE ParseFields(repo_path, SymbolKindFromStr(Pair(kind_name)[1]), Pair(kind_name)[2], line)

\* SymbolUri::parse: repo_path.split_once('/') and fragment.rsplit_once('@')
ParseParts(repo_path, fragment) ==
    IF repo_path = {} \/ fragment = {} THEN UriErr
    ELSE ParseFragment(Pair(repo_path), SplitOnce(Pair(fragment)[1], ":"),
                       LineFromStr(Pair(fragment)[2]))

\* SymbolUri::parse: uri.split_once('#')
ParseStripped(parts) ==
    IF parts = {} THEN UriErr
    ELSE ParseParts(SplitOnce(Pair(parts)[1], "/"), RSplitOnce(Pair(parts)[2], "@"))

\* SymbolUri::parse: the URI record, or UriErr
ParseUri(str) ==
    IF Len(str) = 0 \/ str[1] # "codescope://" THEN UriErr
    ELSE ParseStripped(SplitOnce(Tail(str), "#"))

ParseOk(str) == ParseUri(str) # UriErr

\* ------------------------------------------------------------ the store
\* tables of schema.rs and of the statements of sqlite.rs; tables whose
\* AUTOINCREMENT id nothing refers to are bags of rows without the id
EmptyStore ==
    [symbols |-> {}, edges |-> EmptyBag, embeddings |-> {}, unresolved |-> {},
     imports |-> EmptyBag, ambiguous |-> EmptyBag, callsite_embeddings |-> {},
     file_hash |-> {}, ref_seq |-> 0]

\* the rows of bag B that do not satisfy Drop
BagWithout(B, Drop(_)) == [r \in {x \in DOMAIN B : ~Drop(x)} |-> B[r]]

BagAdd(B, r) == B (+) SetToBag({r})

\* number of rows of bag B that satisfy P
RECURSIVE SumCopies(_, _)
SumCopies(B, S) ==
    IF S = {} THEN 0
    ELSE LET r == CHOOSE x \in S : TRUE IN B[r] + SumCopies(B, S \ {r})

CountRows(B, P(_)) == SumCopies(B, {x \in DOMAIN B : P(x)})

\* Edge::with_confidence / Edge::new as the row insert_edge binds
EdgeRow(from, to, kind, confidence) ==
    [from_uri |-> to_uri_string(from), to_uri |-> to_uri_string(to),
     kind |-> kind, confidence |-> confidence]

SameTriple(r, e) == r.from_uri = e.from_uri /\ r.to_uri = e.to_uri /\ r.kind = e.kind

\* insert_edge without the UNIQUE(from_uri, to_uri, kind) conflict handling
insert_edge_no_unique(st, e) == [st EXCEPT !.edges = BagAdd(@, e)]

\* insert_edge: INSERT OR REPLACE under UNIQUE(from_uri, to_uri, kind)
insert_edge(st, e) ==
    [st EXCEPT !.edges = BagAdd(BagWithout(@, LAMBDA r : SameTriple(r, e)), e)]

\* Symbol::new as the row insert_symbol binds; content stands for the text
\* of the syntactic range (the file version it was cut from)
SymbolRow(uri, content) ==
    [uri |-> to_uri_string(uri), kind |-> uri.kind, name |-> uri.name,
     path |-> uri.path, line_start |-> uri.line, content |-> content]

\* insert_symbol: INSERT OR REPLACE on the primary key uri
insert_symbol(st, row) ==
    [st EXCEPT !.symbols = {r \in @ : r.uri # row.uri} \cup {row}]

\* row_to_symbol succeeds: the stored uri parses and the kind is known
RowIsSymbol(r) == ParseOk(r.uri) /\ SymbolKindFromStr(<<r.kind>>) # "err"

\* row_to_symbol: the Symbol of a row (its uri parsed back)
row_to_symbol(r) == [r EXCEPT !.uri = ParseUri(r.uri)]

\* the .filter_map(|r| r.ok()) of every symbol query: rows that fail to
\* convert are dropped from the result
SymbolsOf(rows) == {row_to_symbol(r) : r \in {x \in rows : RowIsSymbol(x)}}

find_symbols_in_file(st, path) == SymbolsOf({r \in st.symbols : r.path = path})

find_symbols_by_name(st, name) == SymbolsOf({r \in st.symbols : r.name = name})

find_symbols_by_name_and_file(st, name, file_path) ==
    SymbolsOf({r \in st.symbols : r.name = name /\ r.path = file_path})

find_symbols_without_embeddings(st) ==
    SymbolsOf({r \in st.symbols : \A e \in st.embeddings : e.uri # r.uri})

\* characters: token t begins with the characters of token p
TokenStartsWith(t, p) ==
    t = p \/ <<t, p>> \in {<<"a.py", "a">>, <<"b.py", "b">>, <<"c.py", "c">>}

\* SQL "uri LIKE '%/<ns>%'": the characters "/" ++ ns occur somewhere in str
\* ("codescope://" ends in a slash, so the token after it is preceded by one)
LikeSlashNs(str, ns) ==
    Len(ns) > 0 /\
    \E i \in 1..Len(str) :
        /\ str[i] \in {"/", "codescope://"}
        /\ i + Len(ns) <= Len(str)
        /\ \A k \in 1..(Len(ns) - 1) : str[i + k] = ns[k]
        /\ TokenStartsWith(str[i + Len(ns)], ns[Len(ns)])

find_symbols_by_name_and_container_pattern(st, name, namespace_pattern) ==
    SymbolsOf({r \in st.symbols : r.name = name /\ LikeSlashNs(r.uri, namespace_pattern)})

\* row_to_edge succeeds: both endpoints parse
RowIsEdge(r) == ParseOk(r.from_uri) /\ ParseOk(r.to_uri)

\* get_edges_from: the rows leaving uri that convert to an Edge
get_edges_from(st, uri) ==
    {r \in DOMAIN st.edges : r.from_uri = to_uri_string(uri) /\ RowIsEdge(r)}

\* insert_embedding: INSERT OR REPLACE on the primary key uri
insert_embedding(st, uri, vector) ==
    [st EXCEPT !.embeddings =
        {e \in @ : e.uri # to_uri_string(uri)} \cup {[uri |-> to_uri_string(uri), vector |-> vector]}]

\* insert_callsite_embedding: INSERT OR REPLACE on reference_id
insert_callsite_embedding(st, reference_id, vector) ==
    [st EXCEPT !.callsite_embeddings =
        {e \in @ : e.reference_id # reference_id}
            \cup {[reference_id |-> reference_id, vector |-> vector]}]

\* insert_import
insert_import(st, file_path, alias, target_namespace, line) ==
    [st EXCEPT !.imports = BagAdd(@, [file_path |-> file_path, alias |-> alias,
                                      target_namespace |-> target_namespace, line |-> line])]

get_imports_for_file(st, file_path) == {i \in DOMAIN st.imports : i.file_path = file_path}

\* insert_ambiguous_reference
insert_ambiguous_reference(st, reference_id, candidate_uri, score) ==
    [st EXCEPT !.ambiguous = BagAdd(@, [reference_id |-> reference_id,
                                        candidate_uri |-> candidate_uri, score |-> score])]

\* insert_unresolved: the row gets the next AUTOINCREMENT id
insert_unresolved(st, u) ==
    [st EXCEPT !.ref_seq = @ + 1,
               !.unresolved = @ \cup {[u EXCEPT !.id = st.ref_seq + 1]}]

\* PersistedUnresolvedReference::new
PersistedUnresolvedReference(from_uri, name, receiver, file_path, line, ref_kind) ==
    [id |-> 0, from_uri |-> from_uri, name |-> name, receiver |-> receiver,
     file_path |-> file_path, line |-> line, ref_kind |-> ref_kind, is_external |-> FALSE]

get_all_unresolved(st) == st.unresolved

get_unresolved_in_file(st, file_path) == {u \in st.unresolved : u.file_path = file_path}

\* delete_unresolved that leaves the row
keep_unresolved(st, id) == st

delete_unresolved(st, id) == [st EXCEPT !.unresolved = {u \in @ : u.id # id}]

\* mark_unresolved_as_external that leaves the row as it is
leave_unmarked(st, id) == st

mark_unresolved_as_external(st, id) ==
    [st EXCEPT !.unresolved =
        {IF u.id = id THEN [u EXCEPT !.is_external = TRUE] ELSE u : u \in @}]

count_unresolved(st) == Cardinality({u \in st.unresolved : ~u.is_external})

NoHash == <<>>

\* get_file_hash: the stored hash of path, or NoHash
get_file_hash(st, path) ==
    IF \E h \in st.file_hash : h.path = path
    THEN (CHOOSE h \in st.file_hash : h.path = path).hash
    ELSE NoHash

\* update_file_hash: INSERT OR REPLACE (path, hash, last_modified = now)
update_file_hash(st, path, hash, t) ==
    [st EXCEPT !.file_hash =
        {h \in @ : h.path # path} \cup {[path |-> path, hash |-> hash, last_modified |-> t]}]

remove_file_hash(st, path) == [st EXCEPT !.file_hash = {h \in @ : h.path # path}]

get_all_indexed_files(st) == {h.path : h \in st.file_hash}

\* ---- delete_file_data: six groups of statements, each run on its own
\* (no transaction is opened); a failing statement returns early with `?`
DeleteLinksOf(st, uris) ==
    [st EXCEPT
       !.edges = BagWithout(@, LAMBDA r : r.from_uri \in uris \/ r.to_uri \in uris),
       !.embeddings = {e \in @ : e.uri \notin uris}]

DeleteSymbolLinks(st, path) ==
    DeleteLinksOf(st, {to_uri_string(s.uri) : s \in find_symbols_in_file(st, path)})

DeleteSymbols(st, path) == [st EXCEPT !.symbols = {r \in @ : r.path # path}]

DeleteRefDependents(st, path) ==
    LET ids == {u.id : u \in get_unresolved_in_file(st, path)}
    IN [st EXCEPT
          !.ambiguous = BagWithout(@, LAMBDA r : r.reference_id \in ids),
          !.callsite_embeddings = {e \in @ : e.reference_id \notin ids}]

DeleteUnresolved(st, path) == [st EXCEPT !.unresolved = {u \in @ : u.file_path # path}]

DeleteImports(st, path) ==
    [st EXCEPT !.imports = BagWithout(@, LAMBDA r : r.file_path = path)]

DeleteSteps == 6

\* the store after the first n statement groups of delete_file_data(path)
RECURSIVE delete_file_data_prefix(_, _, _)
delete_file_data_prefix(st, path, n) ==
    IF n = 0 THEN st
    ELSE LET s == delete_file_data_prefix(st, path, n - 1)
         IN CASE n = 1 -> DeleteSymbolLinks(s, path)
              [] n = 2 -> DeleteSymbols(s, path)
              [] n = 3 -> DeleteRefDependents(s, path)
              [] n = 4 -> DeleteUnresolved(s, path)
              [] n = 5 -> DeleteImports(s, path)
              [] OTHER -> remove_file_hash(s, path)

\* delete_file_data returning Ok
delete_file_data(st, path) == delete_file_data_prefix(st, path, DeleteSteps)

\* ------------------------------------------------- files and the adapter
\* Option<T>: None is the empty set, Some(x) the singleton
None == {}

Some(x) == {x}

Unwrap(o) == CHOOSE x \in o : TRUE

Repo == <<"r">>

PathA == <<"a.py">>

PathB == <<"b.py">>

PathC == <<"C", "#", "/", "c.py">>

Paths == {PathA, PathB, PathC}

Absent == "absent"

\* batch_size of SemanticLinker::run
BatchSize == 32

\* file contents, as their lines: a def line, a class line (with its base
\* class, if any), a call, an `import m`, a `from m import n`, or other text
Lines(content) ==
    CASE content = "def_f" ->
            <<[t |-> "def", name |-> <<"f">>]>>
      [] content = "def_f_f" ->
            <<[t |-> "def", name |-> <<"f">>],
              [t |-> "other"],
              [t |-> "def", name |-> <<"f">>]>>
      [] content = "g_calls_f" ->
            <<[t |-> "import", module |-> <<"a">>, alias |-> None],
              [t |-> "def", name |-> <<"g">>],
              [t |-> "call", name |-> <<"f">>, receiver |-> None]>>
      [] content = "ff_calls_a_f" ->
            <<[t |-> "import", module |-> <<"a">>, alias |-> None],
              [t |-> "def", name |-> <<"f">>],
              [t |-> "def", name |-> <<"f">>],
              [t |-> "call", name |-> <<"f">>, receiver |-> Some(<<"a">>)]>>
      [] content = "g_calls_x_f" ->
            <<[t |-> "other"],
              [t |-> "def", name |-> <<"g">>],
              [t |-> "call", name |-> <<"f">>, receiver |-> Some(<<"x">>)]>>
      [] content = "g_from_a_calls_f" ->
            <<[t |-> "from", module |-> <<"a">>, name |-> Some(<<"f">>), alias |-> None],
              [t |-> "def", name |-> <<"g">>],
              [t |-> "call", name |-> <<"f">>, receiver |-> None]>>
      [] content = "g_calls_f_many" ->
            <<[t |-> "other"], [t |-> "def", name |-> <<"g">>]>>
                \o [i \in 1..(BatchSize + 1) |->
                        [t |-> "call", name |-> <<"f">>, receiver |-> None]]
      [] content = "d_inherits_f" ->
            <<[t |-> "class", name |-> <<"D">>, base |-> Some(<<"f">>)]>>
      [] content = "def_h" ->
            <<[t |-> "def", name |-> <<"h">>]>>
      [] content = "h_calls_f" ->
            <<[t |-> "other"],
              [t |-> "def", name |-> <<"h">>],
              [t |-> "call", name |-> <<"f">>, receiver |-> None]>>
      [] OTHER -> <<>>

\* the query matches tree-sitter yields on a content, each with its line number
Matches(content) ==
    LET lines == Lines(content)
    IN SelectSeq([i \in 1..Len(lines) |-> [line |-> i] @@ lines[i]],
                 LAMBDA m : m.t # "other")

\* the contents each path takes in the model
ContentsOf(path) ==
    CASE path = PathA -> {"def_f", "def_f_f"}
      [] path = PathB -> {"g_calls_f", "not_utf8"}
      [] OTHER -> {"def_h", "h_calls_f"}

\* std::fs::read_to_string(file_path) returns Ok: the bytes are valid UTF-8
Readable(content) == content # "not_utf8"

\* blake3::hash(content): collision-free on the contents of the model
Blake3(content) == <<"blake3", content>>

\* path.rsplit('/').next(): the characters after the last slash
FileName(path) == After(path, LastIndex(path, "/"))

\* the file name without its ".py" ending (trim_end_matches / strip_suffix)
StripPy(file_name) ==
    IF file_name = <<"a.py">> THEN <<"a">>
    ELSE IF file_name = <<"b.py">> THEN <<"b">>
    ELSE IF file_name = <<"c.py">> THEN <<"c">>
    ELSE file_name

EmptyResult == [symbols |-> {}, edges |-> {}, references |-> <<>>, imports |-> <<>>]

\* the edges QueryAdapter::parse_file adds for a callable at uri: Defines from
\* the namespace, and Contains from the current class when there is one
CallableEdges(namespace_uri, uri, cur) ==
    {EdgeRow(namespace_uri, uri, "defines", 100)}
        \cup {EdgeRow(class_uri, uri, "contains", 100) : class_uri \in cur.class}

\* one iteration of the loop over query matches in QueryAdapter::parse_file;
\* cur holds current_function and current_class
RECURSIVE ParseMatches(_, _, _, _, _, _)
ParseMatches(repo, path, content, ms, cur, result) ==
    IF ms = <<>> THEN result
    ELSE LET m == Head(ms)
             namespace_uri == SymbolUri(repo, path, "namespace", StripPy(FileName(path)), 1)
         IN CASE m.t = "def" ->
                   LET uri == SymbolUri(repo, path, "callable", m.name, m.line)
                   IN ParseMatches(repo, path, content, Tail(ms),
                        [cur EXCEPT !.function = Some(uri)],
                        [result EXCEPT
                           !.symbols = @ \cup {SymbolRow(uri, content)},
                           !.edges = @ \cup CallableEdges(namespace_uri, uri, cur)])
              [] m.t = "class" ->
                   LET uri == SymbolUri(repo, path, "container", m.name, m.line)
                   IN ParseMatches(repo, path, content, Tail(ms),
                        [cur EXCEPT !.class = Some(uri)],
                        [result EXCEPT
                           !.symbols = @ \cup {SymbolRow(uri, content)},
                           !.edges = @ \cup {EdgeRow(namespace_uri, uri, "defines", 100)},
                           !.references = IF m.base = None THEN @
                                          ELSE Append(@, [name |-> Unwrap(m.base), line |-> m.line,
                                                          from_uri |-> uri])])
              [] m.t = "call" ->
                   ParseMatches(repo, path, content, Tail(ms), cur,
                        IF cur.function = None THEN result
                        ELSE [result EXCEPT !.references = Append(@,
                                [name |-> IF m.receiver = None THEN m.name
                                          ELSE Unwrap(m.receiver) \o <<".">> \o m.name,
                                 line |-> m.line, from_uri |-> Unwrap(cur.function)])])
              [] m.t = "import" ->
                   ParseMatches(repo, path, content, Tail(ms), cur,
                        [result EXCEPT !.imports = Append(@,
                            [namespace |-> m.module, symbols |-> {}, alias |-> None,
                             line |-> m.line])])
              [] m.t = "from" ->
                   ParseMatches(repo, path, content, Tail(ms), cur,
                        [result EXCEPT !.imports = Append(@,
                            [namespace |-> m.module, symbols |-> m.name, alias |-> m.alias,
                             line |-> m.line])])
              [] OTHER -> ParseMatches(repo, path, content, Tail(ms), cur, result)

\* QueryAdapter::parse_file: the namespace symbol of the file, then the matches
QueryAdapter_parse_file(repo, path, content) ==
    LET namespace_uri == SymbolUri(repo, path, "namespace", StripPy(FileName(path)), 1)
    IN ParseMatches(repo, path, content, Matches(content),
                    [function |-> None, class |-> None],
                    [EmptyResult EXCEPT !.symbols = {SymbolRow(namespace_uri, "")}])

\* lines[i..=end_line].join("\n"): the text of the block that starts at line i
BlockContent(content, i) == <<content, i>>

\* PythonAdapter::simple_extract: a callable per def line and a container
\* per class line, each with a defines edge from the namespace
simple_extract(repo, path, content, result, ns_uri) ==
    LET lines == Lines(content)
        defs == {i \in 1..Len(lines) : lines[i].t \in {"def", "class"}}
        UriAt(i) == SymbolUri(repo, path,
                              IF lines[i].t = "def" THEN "callable" ELSE "container",
                              lines[i].name, i)
    IN [result EXCEPT
          !.symbols = @ \cup {SymbolRow(UriAt(i), BlockContent(content, i)) : i \in defs},
          !.edges = @ \cup {EdgeRow(ns_uri, UriAt(i), "defines", 100) : i \in defs}]

\* PythonAdapter::parse_file: the namespace symbol holding the whole content,
\* then simple_extract; it reports no references and no imports
parse_file(repo, path, content) ==
    LET ns_uri == SymbolUri(repo, path, "namespace", StripPy(FileName(path)), 1)
    IN simple_extract(repo, path, content,
                      [EmptyResult EXCEPT !.symbols = {SymbolRow(ns_uri, content)}],
                      ns_uri)

\* ------------------------------------------------------------ the linkers
\* the rows of S in rowid order
RECURSIVE InIdOrder(_)
InIdOrder(S) ==
    IF S = {} THEN <<>>
    ELSE LET first == CHOOSE u \in S : \A v \in S : u.id <= v.id
         IN <<first>> \o InIdOrder(S \ {first})

\* the import-matching rule of Step 2 of GlobalLinker::run
MatchesImport(ref_item, import) ==
    IF ref_item.receiver # None
    THEN IF import.alias # None
         THEN Unwrap(import.alias) = Unwrap(ref_item.receiver)
         ELSE LET ns == import.target_namespace
                  namespace_leaf == After(ns, LastIndex(ns, "."))
              IN namespace_leaf = Unwrap(ref_item.receiver)
    ELSE import.alias # None /\ Unwrap(import.alias) = ref_item.name

\* `if len == 1 { matched_uri = Some(..) } else if len > 1 { candidates.extend(..) }`
\* on the running lookup l = [matched_uri, candidates]
Classify(l, matches) ==
    IF Cardinality(matches) = 1
    THEN [l EXCEPT !.matched_uri = Some((CHOOSE s \in matches : TRUE).uri)]
    ELSE [l EXCEPT !.candidates = @ \cup {s.uri : s \in matches}]

Undecided(l) == l.matched_uri = None /\ l.candidates = {}

\* Step 1: local resolution (same file)
LinkStep1(st, ref_item) ==
    Classify([matched_uri |-> None, candidates |-> {}],
             find_symbols_by_name_and_file(st, ref_item.name, ref_item.file_path))

\* Step 2: the loop over all the imports of the file (it has no break)
RECURSIVE ImportLoop(_, _, _, _)
ImportLoop(st, ref_item, imports, l) ==
    IF imports = {} THEN l
    ELSE ImportLoop(st, ref_item, imports \ {CHOOSE i \in imports : TRUE},
            IF MatchesImport(ref_item, CHOOSE i \in imports : TRUE)
            THEN Classify(l, find_symbols_by_name_and_container_pattern(st, ref_item.name,
                                 (CHOOSE i \in imports : TRUE).target_namespace))
            ELSE l)

LinkStep2(st, ref_item, l) ==
    IF Undecided(l) THEN ImportLoop(st, ref_item, get_imports_for_file(st, ref_item.file_path), l)
    ELSE l

\* Step 3: global fallback on the name alone
LinkStep3(st, ref_item, l) ==
    IF Undecided(l) THEN Classify(l, find_symbols_by_name(st, ref_item.name)) ELSE l

\* Steps 1 to 3 of GlobalLinker::run for one reference:
\* the matched uri (an Option) and the candidate set
LinkLookup(st, ref_item) ==
    LinkStep3(st, ref_item, LinkStep2(st, ref_item, LinkStep1(st, ref_item)))

RECURSIVE InsertAmbiguous(_, _, _)
InsertAmbiguous(st, id, uris) ==
    IF uris = {} THEN st
    ELSE LET u == CHOOSE x \in uris : TRUE
         IN InsertAmbiguous(insert_ambiguous_reference(st, id, to_uri_string(u), 0),
                            id, uris \ {u})

\* the final decision of GlobalLinker::run for one reference with lookup l,
\* applied to the running result r = [st, resolved, ambiguous, external]
LinkDecision(r, ref_item, l) ==
    IF l.matched_uri # None
    THEN IF ParseOk(ref_item.from_uri)
         THEN [r EXCEPT
                 !.st = delete_unresolved(
                          insert_edge(@, EdgeRow(ParseUri(ref_item.from_uri),
                                Unwrap(l.matched_uri),
                                IF ref_item.ref_kind = "inherits" THEN "inherits" ELSE "calls",
                                100)),
                          ref_item.id),
                 !.resolved = @ + 1]
         ELSE r
    ELSE IF l.candidates # {}
    THEN [r EXCEPT !.st = InsertAmbiguous(@, ref_item.id, l.candidates),
                   !.ambiguous = @ + 1]
    ELSE [r EXCEPT !.st = mark_unresolved_as_external(@, ref_item.id),
                   !.external = @ + 1]

LinkOne(r, ref_item) == LinkDecision(r, ref_item, LinkLookup(r.st, ref_item))

\* the loop over the references; the test on r.total (never negative) only
\* makes the running result be computed at each iteration
RECURSIVE LinkAll(_, _)
LinkAll(r, refs) ==
    IF refs = <<>> \/ r.total < 0 THEN r ELSE LinkAll(LinkOne(r, Head(refs)), Tail(refs))

\* GlobalLinker::run: the store it leaves and its GlobalLinkerStats
GlobalLinkerRun(st) ==
    LET unresolved == InIdOrder(get_all_unresolved(st))
    IN LinkAll([st |-> st, resolved |-> 0, ambiguous |-> 0, external |-> 0,
                total |-> Len(unresolved)], unresolved)

\* vectors are pairs of integers; the embedding model is opaque, and stands
\* here for one that places a symbol named f at <<4, 3>>, every other
\* symbol at <<0, 5>> and a call site at <<5, 0>>
EmbedSymbol(sym) == IF sym.name = <<"f">> THEN <<4, 3>> ELSE <<0, 5>>

EmbedCallSite(ref_item) == <<5, 0>>

Dot(a, b) == a[1] * b[1] + a[2] * b[2]

\* the square root of n, for the perfect squares the model meets
Sqrt(n) == CHOOSE r \in 0..n : r * r = n

\* SemanticLinker::cosine_similarity, in percent
cosine_similarity(a, b) ==
    IF Len(a) # Len(b) \/ Len(a) = 0 THEN 0
    ELSE IF Sqrt(Dot(a, a)) = 0 \/ Sqrt(Dot(b, b)) = 0 THEN 0
    ELSE (100 * Dot(a, b)) \div (Sqrt(Dot(a, a)) * Sqrt(Dot(b, b)))

Threshold == 60

TopK == 5

\* phase 3 of the index command: one embedding per symbol that has none
RECURSIVE EmbedAll(_, _)
EmbedAll(st, syms) ==
    IF syms = {} THEN st
    ELSE LET s == CHOOSE x \in syms : TRUE
         IN EmbedAll(insert_embedding(st, s.uri, EmbedSymbol(s)), syms \ {s})

EmbedMissing(st) == EmbedAll(st, find_symbols_without_embeddings(st))

\* a selection that keeps every match
TakeAll(ms, k) == ms

\* matches.sort_by(score desc) then take(5): the K best of the matches
RECURSIVE BestOf(_, _)
BestOf(ms, k) ==
    IF ms = {} \/ k = 0 THEN {}
    ELSE LET m == CHOOSE x \in ms : \A y \in ms : x.score >= y.score
         IN {m} \cup BestOf(ms \ {m}, k - 1)

\* the write of Stage B without the test on the stored confidence
WriteAlways(r, from, edge) == [st |-> insert_edge(r.st, edge), matched |-> TRUE]

\* one target of the write loop of SemanticLinker::run: the edge is skipped
\* when a stored edge of the triple has at least its confidence
WriteOne(r, from, edge) ==
    IF \E e \in get_edges_from(r.st, from) :
           e.to_uri = edge.to_uri /\ e.kind = edge.kind /\ e.confidence >= edge.confidence
    THEN r
    ELSE [st |-> insert_edge(r.st, edge), matched |-> TRUE]

BestTarget(targets) == CHOOSE x \in targets : \A y \in targets : x.score >= y.score

\* the write loop over the selected targets, best first; r = [st, matched]
RECURSIVE WriteTargets(_, _, _)
WriteRest(r, from, targets, m) ==
    WriteTargets(WriteOne(r, from, EdgeRow(from, m.uri, "calls", m.score)), from, targets \ {m})

WriteTargets(r, from, targets) ==
    IF targets = {} THEN r ELSE WriteRest(r, from, targets, BestTarget(targets))

\* the symbols scoring at least the threshold against a call-site vector
Scores(vector, cached_symbols) ==
    {[uri |-> c.uri, score |-> cosine_similarity(vector, c.vector)] :
        c \in {x \in cached_symbols : cosine_similarity(vector, x.vector) >= Threshold}}

\* a settling step that leaves a reference alone when no edge was written
SettleMatchedOnly(w, ref_item) ==
    [st |-> IF w.matched THEN delete_unresolved(w.st, ref_item.id) ELSE w.st, ok |-> TRUE]

\* a settling step that deletes the reference whether or not an edge was written
SettleByDeleting(w, ref_item) == [st |-> delete_unresolved(w.st, ref_item.id), ok |-> TRUE]

\* after the write loop: the reference is deleted when an edge was written,
\* marked external otherwise
SemanticSettle(w, ref_item) ==
    [st |-> IF w.matched THEN delete_unresolved(w.st, ref_item.id)
            ELSE mark_unresolved_as_external(w.st, ref_item.id),
     ok |-> TRUE]

\* ok = FALSE when SymbolUri::parse(&ref_item.from_uri)? returns the error
SemanticWrite(st, ref_item, targets) ==
    IF targets # {} /\ ~ParseOk(ref_item.from_uri)
    THEN [st |-> st, ok |-> FALSE]
    ELSE SemanticSettle(WriteTargets([st |-> st, matched |-> FALSE],
                                     ParseUri(ref_item.from_uri), targets), ref_item)

\* one reference of a batch of SemanticLinker::run
SemanticOne(st, cached_symbols, ref_item) ==
    SemanticWrite(insert_callsite_embedding(st, ref_item.id, EmbedCallSite(ref_item)),
                  ref_item, BestOf(Scores(EmbedCallSite(ref_item), cached_symbols), TopK))

\* the references of one batch in turn; fail is the id of the reference at
\* which a statement of the store returns an error (0: the store works)
RECURSIVE SemanticBatch(_, _, _, _)
SemanticBatch(r, cached_symbols, chunk, fail) ==
    IF chunk = <<>> \/ ~r.ok THEN r
    ELSE IF Head(chunk).id = fail THEN [r EXCEPT !.ok = FALSE]
    ELSE SemanticBatch(SemanticOne(r.st, cached_symbols, Head(chunk)),
                       cached_symbols, Tail(chunk), fail)

\* a failed batch whose uncommitted writes would stay in the store
KeepPartial(committed, partial) == partial

\* the store after run returned the error of a batch: rollback is never
\* called, the command returns the error and the connection is closed with
\* the transaction open, which discards the writes made since BEGIN
AfterAbort(committed, partial) == committed

\* the batch loop: a batch is committed as a whole; when a statement of a
\* batch returns an error the run stops with the transaction still open,
\* and the writes of that batch are lost when the connection is closed
RECURSIVE SemanticBatches(_, _, _, _)
SemanticBatches(st, cached_symbols, targets, fail) ==
    IF targets = <<>> THEN [st |-> st, ok |-> TRUE]
    ELSE LET n == Min(BatchSize, Len(targets))
             b == SemanticBatch([st |-> st, ok |-> TRUE], cached_symbols,
                                SubSeq(targets, 1, n), fail)
         IN IF b.ok
            THEN SemanticBatches(b.st, cached_symbols, SubSeq(targets, n + 1, Len(targets)),
                                 fail)
            ELSE [st |-> AfterAbort(st, b.st), ok |-> FALSE]

\* the non-external references SemanticLinker::run works on, in order
SemanticTargets(st) == InIdOrder({u \in get_all_unresolved(st) : ~u.is_external})

\* the embeddings of the store whose URI parses, read once before the batches
cached_symbols(st) ==
    {[uri |-> ParseUri(e.uri), vector |-> e.vector] :
        e \in {x \in st.embeddings : ParseOk(x.uri)}}

\* SemanticLinker::run; the store fails at the reference in position fail of
\* the targets (0: the store works)
SemanticLinkerRun(st, fail) ==
    LET targets == SemanticTargets(st)
    IN SemanticBatches(st, cached_symbols(st), targets,
                       IF fail \in 1..Len(targets) THEN targets[fail].id ELSE 0)

\* ------------------------------------------------------ the index command
Workers == {1, 2}

ZeroStats == [unchanged |-> 0, added |-> 0, modified |-> 0, deleted |-> 0,
              errors |-> 0, symbols |-> 0]

\* name.rsplit_once('.'): the receiver and the name of a dotted reference name
ReceiverAndName(full, parts) ==
    IF parts = {} THEN [receiver |-> None, name |-> full]
    ELSE [receiver |-> Some(Pair(parts)[1]), name |-> Pair(parts)[2]]

SplitReceiver(full) == ReceiverAndName(full, RSplitOnce(full, "."))

RECURSIVE InsertSymbols(_, _)
InsertSymbols(st, rows) ==
    IF rows = {} THEN st
    ELSE LET r == CHOOSE x \in rows : TRUE
         IN InsertSymbols(insert_symbol(st, r), rows \ {r})

RECURSIVE InsertEdges(_, _)
InsertEdges(st, rows) ==
    IF rows = {} THEN st
    ELSE LET r == CHOOSE x \in rows : TRUE
         IN InsertEdges(insert_edge(st, r), rows \ {r})

\* the row the coordinator stores for reference u; ref_kind is always "call"
PersistedOf(u, sp, relative_path) ==
    PersistedUnresolvedReference(to_uri_string(u.from_uri), sp.name, sp.receiver,
                                 relative_path, u.line, "call")

RECURSIVE InsertReferences(_, _, _)
InsertReferences(st, relative_path, refs) ==
    IF refs = <<>> THEN st
    ELSE InsertReferences(
            insert_unresolved(st, PersistedOf(Head(refs), SplitReceiver(Head(refs).name),
                                              relative_path)),
            relative_path, Tail(refs))

RECURSIVE InsertImports(_, _, _)
InsertImports(st, relative_path, imports) ==
    IF imports = <<>> THEN st
    ELSE LET i == Head(imports)
         IN InsertImports(insert_import(st, relative_path, i.alias, i.namespace, Some(i.line)),
                          relative_path, Tail(imports))

\* the writes of the coordinator for `if let Some(res) = result`
InsertResult(st, relative_path, res) ==
    InsertImports(
        InsertReferences(
            InsertEdges(InsertSymbols(st, res.symbols), res.edges),
            relative_path, res.references),
        relative_path, res.imports)

\* the store after the `match status` of the coordinator: a Modified file is
\* deleted first; n < DeleteSteps is a delete_file_data that returned an
\* error after n statement groups, which `.ok()` discards
AfterStatus(st, msg, n) ==
    IF msg.status = "Modified" THEN delete_file_data_prefix(st, msg.relative_path, n) ELSE st

\* the store after the coordinator handled one Processed message; s1 is
\* the store after the `match status`
AfterProcessed(s1, msg, t) ==
    update_file_hash(
        IF msg.result # None THEN InsertResult(s1, msg.relative_path, Unwrap(msg.result))
        ELSE s1,
        msg.relative_path, msg.hash, t)

\* the status a worker gives a file from the stored hash
FileStatus(st, relative_path, hash) ==
    LET h == get_file_hash(st, relative_path)
    IN IF h = hash THEN "Unchanged" ELSE IF h # NoHash THEN "Modified" ELSE "New"

\* a worker that would record the hash of the file it has just read
WorkerRecordsHash(st, relative_path, hash, t) == update_file_hash(st, relative_path, hash, t)

\* the store as a worker leaves it: its connection only serves get_file_hash
WorkerStore(st, relative_path, hash, t) == st

\* the message a worker sends for a file
WorkerMessage(st, relative_path, content) ==
    LET hash == Blake3(content)
        status == FileStatus(st, relative_path, hash)
    IN [relative_path |-> relative_path, hash |-> hash, status |-> status,
        result |-> IF status = "Unchanged" THEN None
                   ELSE Some(parse_file(Repo, relative_path, content))]

\* the prefix of a URI string that every symbol of file path shares
UriPrefix(path) == <<"codescope://">> \o Repo \o <<"/">> \o path \o <<"#">>

UriOfPath(str, path) ==
    Len(str) >= Len(UriPrefix(path)) /\ SubSeq(str, 1, Len(UriPrefix(path))) = UriPrefix(path)

\* the rows of st that describe file path or refer to one of its URIs;
\* ids are the ids of the unresolved references of the file
RowsOfFile(st, path, ids) ==
    [symbols |-> {r \in st.symbols : r.path = path \/ UriOfPath(r.uri, path)},
     edges |-> {r \in DOMAIN st.edges : UriOfPath(r.from_uri, path) \/ UriOfPath(r.to_uri, path)},
     embeddings |-> {r \in st.embeddings : UriOfPath(r.uri, path)},
     imports |-> {r \in DOMAIN st.imports : r.file_path = path},
     unresolved |-> {r \in st.unresolved : r.file_path = path \/ UriOfPath(r.from_uri, path)},
     ambiguous |-> {r \in DOMAIN st.ambiguous :
                       r.reference_id \in ids \/ UriOfPath(r.candidate_uri, path)},
     file_hash |-> {r \in st.file_hash : r.path = path}]

NoRows == [symbols |-> {}, edges |-> {}, embeddings |-> {}, imports |-> {},
           unresolved |-> {}, ambiguous |-> {}, file_hash |-> {}]

\* the rows of the tables a file owns: all but the ambiguous candidates
OwnRows(st, path) == [RowsOfFile(st, path, {}) EXCEPT !.ambiguous = {}]

RefIds(st, path) == {u.id : u \in get_unresolved_in_file(st, path)}

\* delete_file_data(path) took st to st2 (it returned Ok) and left rows of
\* the file behind
LeavesRows(st, st2, path) == RowsOfFile(st2, path, RefIds(st, path)) # NoRows


\* ------------------------------------------------ observations (history)
Snapshot(st) == [symbols |-> st.symbols, edges |-> st.edges, file_hash |-> st.file_hash]

NoHist ==
    [inserted |-> {}, twice |-> {},
     writers |-> {}, sent |-> 0, handled |-> 0, swept |-> FALSE, late |-> FALSE,
     stale |-> FALSE, modified |-> FALSE, delCalls |-> {}, delLeft |-> {},
     partial |-> FALSE, prev |-> None, changed |-> FALSE, quiet |-> FALSE,
     same |-> TRUE, files |-> 0, gone |-> {}, failed |-> 0,
     before |-> None, fresh |-> FALSE, again |-> FALSE, link |-> None,
     resolve |-> None, query |-> None, search |-> None,
     embed |-> None, uri |-> None, chunk |-> None, cancel |-> FALSE,
     bound |-> {}, unparsed |-> {}]

\* the threads seen writing: st2 # st is a write of the named thread
Wrote(h, thread, joined, st, st2) ==
    IF st2 # st THEN h.writers \cup {[thread |-> thread, joined |-> joined]} ELSE h.writers

\* a delete_file_data(path) call that returned Ok and took st to st2
Deleted(h, st, st2, path) ==
    [h EXCEPT !.delCalls = @ \cup {path},
              !.delLeft = IF LeavesRows(st, st2, path) THEN @ \cup {path} ELSE @]

\* the end of an index run
EndRun(h, st) ==
    [h EXCEPT !.same = (h.prev = Some(Snapshot(st))),
              !.prev = Some(Snapshot(st)),
              !.changed = FALSE]

\* ------------------------------------------------------------ the actions
Files == {p \in Paths : disk[p] # Absent}

Init ==
    /\ store = EmptyStore
    /\ disk \in [Paths -> {"def_f", "def_f_f", "g_calls_f", "not_utf8", "def_h", "h_calls_f",
                          Absent}]
    /\ \A p \in Paths : disk[p] \in ContentsOf(p) \cup {Absent}
    /\ now = 0
    /\ phase = "idle"
    /\ todo = {}
    /\ chan = <<>>
    /\ senders = [main |-> FALSE, workers |-> {}]
    /\ coord = [pc |-> "done", seen_paths |-> {}]
    /\ stats = ZeroStats
    /\ runs = 0
    /\ edits = 0
    /\ hist = NoHist

\* between two runs a file is written, rewritten or removed
EditDisk(p, c) ==
    /\ phase = "idle"
    /\ edits < MaxEdits
    /\ c # disk[p]
    /\ disk' = [disk EXCEPT ![p] = c]
    /\ edits' = edits + 1
    /\ hist' = [hist EXCEPT !.changed = TRUE]
    /\ UNCHANGED <<store, now, phase, todo, chan, senders, coord, stats, runs>>

\* `coderev index`: the channel, the coordinator thread and the walker start;
\* dt is the time that has passed on the clock of update_file_hash
StartRun(dt) ==
    /\ phase = "idle"
    /\ runs < MaxRuns
    /\ runs' = runs + 1
    /\ now' = now + dt
    /\ phase' = "walk"
    /\ todo' = Files
    /\ chan' = <<>>
    /\ senders' = [main |-> TRUE, workers |-> Workers]
    /\ coord' = [pc |-> "recv", seen_paths |-> {}]
    /\ stats' = ZeroStats
    /\ hist' = [hist EXCEPT !.writers = {}, !.sent = 0, !.handled = 0, !.swept = FALSE,
                            !.late = FALSE, !.failed = 0, !.cancel = FALSE,
                            !.unparsed = {},
                            !.quiet = (hist.prev # None /\ ~hist.changed),
                            !.files = Cardinality(Files),
                            !.gone = {p \in get_all_indexed_files(store) : disk[p] = Absent}]
    /\ UNCHANGED <<store, disk, edits>>

\* the worker sends msg; st2 is the store as the worker leaves it
WorkerSends(msg, st2) ==
    /\ chan' = Append(chan, msg)
    /\ store' = st2
    /\ hist' = [hist EXCEPT !.sent = @ + 1,
                            !.writers = Wrote(hist, "worker", coord.pc = "done", store, st2)]

WorkerStep(p, msg) == WorkerSends(msg, WorkerStore(store, p, msg.hash, now))

\* `Err(_) => return ignore::WalkState::Continue` on a failed read: nothing
\* is sent for the file
WorkerSkips ==
    /\ chan' = chan
    /\ store' = store
    /\ hist' = [hist EXCEPT !.failed = @ + 1]

\* a walk that would stop at the first file it cannot read
QuitAfterReadError(entries, p) == {}

\* WalkState::Continue after a failed read: the other entries are still visited
AfterReadError(entries, p) == entries \ {p}

\* a walker worker takes the next file: read, hash, status, parse, send
WorkerFile(w, p) ==
    /\ phase = "walk"
    /\ w \in senders.workers
    /\ p \in todo
    /\ IF Readable(disk[p])
       THEN /\ WorkerStep(p, WorkerMessage(store, p, disk[p]))
            /\ todo' = todo \ {p}
       ELSE /\ WorkerSkips
            /\ todo' = AfterReadError(todo, p)
    /\ UNCHANGED <<disk, now, phase, senders, coord, stats, runs, edits>>

\* the walk is exhausted: the worker threads end and their Senders are dropped
WalkerDone ==
    /\ phase = "walk"
    /\ senders.workers # {}
    /\ todo = {}
    /\ senders' = [senders EXCEPT !.workers = {}]
    /\ UNCHANGED <<store, disk, now, phase, todo, chan, coord, stats, runs, edits, hist>>

\* walker.run returned: drop(tx)
MainDropTx ==
    /\ phase = "walk"
    /\ senders.main
    /\ senders.workers = {}
    /\ senders' = [senders EXCEPT !.main = FALSE]
    /\ UNCHANGED <<store, disk, now, phase, todo, chan, coord, stats, runs, edits, hist>>

\* the counters of IndexingStats after one Processed message
CountMessage(s, msg) ==
    LET s1 == CASE msg.status = "Unchanged" -> [s EXCEPT !.unchanged = @ + 1]
                [] msg.status = "Modified" -> [s EXCEPT !.modified = @ + 1]
                [] OTHER -> [s EXCEPT !.added = @ + 1]
    IN IF msg.result # None
       THEN [s1 EXCEPT !.symbols = @ + Cardinality(Unwrap(msg.result).symbols)]
       ELSE s1

\* the coordinator has handled msg: st1 is the store after the `match
\* status`, st2 the store after the whole handler
CoordRecord(msg, n, st1, st2) ==
    /\ store' = st2
    /\ stats' = CountMessage(stats, msg)
    /\ coord' = [coord EXCEPT !.seen_paths = @ \cup {msg.relative_path}]
    /\ hist' = [(IF msg.status = "Modified" /\ n = DeleteSteps
                 THEN Deleted(hist, store, st1, msg.relative_path) ELSE hist) EXCEPT
          !.handled = @ + 1,
          !.late = @ \/ hist.swept,
          !.writers = Wrote(hist, "coordinator", FALSE, store, st2),
          !.modified = @ \/ (msg.status = "Modified" /\ msg.result # None),
          !.stale = @ \/ (msg.status = "Modified" /\ msg.result # None /\
                          OwnRows(st1, msg.relative_path) # NoRows),
          !.partial = @ \/ (n < DeleteSteps /\ st1 # store)]

CoordWrite(msg, n, st1) == CoordRecord(msg, n, st1, AfterProcessed(st1, msg, now))

\* the coordinator receives and handles one message; n = DeleteSteps unless
\* delete_file_data failed after n statement groups
CoordHandleWith(n) ==
    /\ coord.pc = "recv"
    /\ chan # <<>>
    /\ CoordWrite(Head(chan), n, AfterStatus(store, Head(chan), n))
    /\ chan' = Tail(chan)
    /\ UNCHANGED <<disk, now, phase, todo, senders, runs, edits>>

CoordHandle == CoordHandleWith(DeleteSteps)

\* a coordinator loop that would end as soon as it finds the channel empty
\* (try_recv), whether or not a Sender is left
CoordEndsWhenEmpty ==
    /\ coord.pc = "recv"
    /\ chan = <<>>
    /\ coord' = [coord EXCEPT !.pc = "done"]
    /\ UNCHANGED <<store, disk, now, phase, todo, chan, senders, stats, runs, edits, hist>>

\* `for msg in rx` ends: the channel is empty and every Sender is dropped
CoordEnd ==
    /\ coord.pc = "recv"
    /\ chan = <<>>
    /\ ~senders.main
    /\ senders.workers = {}
    /\ coord' = [coord EXCEPT !.pc = "done"]
    /\ UNCHANGED <<store, disk, now, phase, todo, chan, senders, stats, runs, edits, hist>>

\* a join that would return without waiting for the coordinator thread
JoinWithoutWaiting(c) == TRUE

\* coordinator.join() has returned
CoordinatorJoined(c) == c.pc = "done"

\* one delete_file_data(p).ok() of the sweep; r = [st, h, deleted]
SweepStep(r, p, st2) ==
    [st |-> st2, h |-> Deleted(r.h, r.st, st2, p), deleted |-> r.deleted + 1]

RECURSIVE SweepPaths(_, _)
SweepOne(r, paths, p) == SweepPaths(SweepStep(r, p, delete_file_data(r.st, p)), paths \ {p})

SweepPaths(r, paths) ==
    IF paths = {} THEN r ELSE SweepOne(r, paths, CHOOSE x \in paths : TRUE)

SweepApply(r) ==
    /\ store' = r.st
    /\ stats' = [stats EXCEPT !.deleted = r.deleted]
    /\ hist' = [r.h EXCEPT !.swept = TRUE,
                           !.writers = Wrote(hist, "main", coord.pc = "done", store, r.st)]

\* the deletion sweep of the main thread
Sweep ==
    /\ phase = "walk"
    /\ ~senders.main
    /\ CoordinatorJoined(coord)
    /\ SweepApply(SweepPaths([st |-> store, h |-> hist, deleted |-> stats.deleted],
                             get_all_indexed_files(store) \ coord.seen_paths))
    /\ phase' = "link"
    /\ UNCHANGED <<disk, now, todo, chan, senders, coord, runs, edits>>

\* phase 2 is entered, or the run ends with nothing to link
GlobalLink ==
    /\ phase = "link"
    /\ LET something_changed == stats.added > 0 \/ stats.modified > 0 \/ stats.deleted > 0
       IN IF something_changed \/ count_unresolved(store) > 0
          THEN /\ store' = GlobalLinkerRun(store).st
               /\ phase' = "embed"
               /\ hist' = [hist EXCEPT !.writers = Wrote(hist, "main", coord.pc = "done",
                                                         store, store')]
          ELSE /\ store' = store
               /\ phase' = "idle"
               /\ hist' = EndRun(hist, store)
    /\ UNCHANGED <<disk, now, todo, chan, senders, coord, stats, runs, edits>>

\* phase 3: embeddings for the symbols that have none
Embed ==
    /\ phase = "embed"
    /\ store' = EmbedMissing(store)
    /\ phase' = "semantic"
    /\ hist' = [hist EXCEPT !.writers = Wrote(hist, "main", coord.pc = "done", store, store')]
    /\ UNCHANGED <<disk, now, todo, chan, senders, coord, stats, runs, edits>>

\* phase 4: the semantic resolver, then the run ends
SemanticLink ==
    /\ phase = "semantic"
    /\ store' = SemanticLinkerRun(store, 0).st
    /\ phase' = "idle"
    /\ hist' = EndRun([hist EXCEPT !.writers = Wrote(hist, "main", coord.pc = "done",
                                                     store, store')], store')
    /\ UNCHANGED <<disk, now, todo, chan, senders, coord, stats, runs, edits>>

Next ==
    \/ \E p \in Paths : \E c \in ContentsOf(p) \cup {Absent} : EditDisk(p, c)
    \/ \E dt \in {0, 1} : StartRun(dt)
    \/ \E w \in Workers : \E p \in Paths : WorkerFile(w, p)
    \/ WalkerDone
    \/ MainDropTx
    \/ CoordHandle
    \/ CoordEnd
    \/ Sweep
    \/ GlobalLink
    \/ Embed
    \/ SemanticLink

Spec == Init /\ [][Next]_vars

\* ---------------------------------------------- the edge API on its own
UriF == SymbolUri(Repo, PathA, "callable", <<"f">>, 1)

UriG == SymbolUri(Repo, PathB, "callable", <<"g">>, 2)

\* the edges a caller passes to insert_edge: two triples that differ in the
\* kind only, each at three confidences (percent)
EdgeInputs == {EdgeRow(UriG, UriF, k, c) : k \in {"calls", "inherits"}, c \in {30, 70, 100}}

InitEdges == Init /\ \A p \in Paths : disk[p] = Absent

InsertEdgeCall(e) ==
    /\ store' = insert_edge(store, e)
    /\ hist' = [hist EXCEPT !.inserted = @ \cup {e},
                            !.twice = IF e \in hist.inserted THEN @ \cup {e} ELSE @]
    /\ UNCHANGED <<disk, now, phase, todo, chan, senders, coord, stats, runs, edits>>

NextEdges == \E e \in EdgeInputs : InsertEdgeCall(e)

SpecEdges == InitEdges /\ [][NextEdges]_vars

\* ------------------------------- the index command with a failing delete
InitFault == Init /\ disk[PathC] = Absent

\* delete_file_data returns an error after n of its statement groups (the
\* statement that follows them failed); the coordinator discards the error
CoordHandleFault ==
    \E n \in 0..(DeleteSteps - 1) :
        /\ chan # <<>>
        /\ Head(chan).status = "Modified"
        /\ CoordHandleWith(n)

NextFault == Next \/ CoordHandleFault

SpecFault == InitFault /\ [][NextFault]_vars

\* ------------------------------ Stage A over the output of QueryAdapter
\* the files a QueryAdapter is given
QueryContentsOf(path) ==
    IF path = PathA THEN {"def_f", "def_f_f"}
    ELSE IF path = PathB
    THEN {"g_calls_f", "ff_calls_a_f", "d_inherits_f", "g_calls_x_f", "g_from_a_calls_f"}
    ELSE {"h_calls_f"}

\* the message of a worker whose adapter is a QueryAdapter
QueryMessage(st, relative_path, content) ==
    [WorkerMessage(st, relative_path, content) EXCEPT
        !.result = IF @ = None THEN None
                   ELSE Some(QueryAdapter_parse_file(Repo, relative_path, content))]

\* the store after the coordinator handled msg with a delete that succeeds
Handled(st, msg, t) == AfterProcessed(AfterStatus(st, msg, DeleteSteps), msg, t)

InitLink == InitEdges

\* the calls edges of st that lead from another file to a symbol that file
\* p still defines, at the same URI, when its content is c
BoundInto(st, p, c) ==
    {[from_uri |-> r.from_uri, to_uri |-> r.to_uri, kind |-> r.kind] :
        r \in {e \in DOMAIN st.edges :
                  /\ e.kind = "calls"
                  /\ ~UriOfPath(e.from_uri, p)
                  /\ e.to_uri \in {s.uri : s \in QueryAdapter_parse_file(Repo, p, c).symbols}}}

\* the edges bound before a file was modified, while the files they come
\* from have not changed since
StillBound(h, st, p, c) ==
    IF c # Absent /\ disk[p] # Absent THEN BoundInto(st, p, c)
    ELSE {e \in h.bound : ~UriOfPath(e.from_uri, p) /\ ~UriOfPath(e.to_uri, p)}

\* file p is written with content c and indexed, or removed and swept
LinkIndex(p, c) ==
    /\ edits < MaxIndexed
    /\ c # disk[p]
    /\ disk' = [disk EXCEPT ![p] = c]
    /\ store' = IF c = Absent THEN delete_file_data(store, p)
                ELSE Handled(store, QueryMessage(store, p, c), now)
    /\ edits' = edits + 1
    /\ hist' = [hist EXCEPT !.fresh = FALSE, !.again = FALSE,
                            !.bound = StillBound(hist, store, p, c)]
    /\ UNCHANGED <<now, phase, todo, chan, senders, coord, stats, runs>>

\* GlobalLinker::run on the store; hist keeps the store it started from and
\* the GlobalLinkerStats it returned
StageA ==
    /\ runs < MaxStageA
    /\ runs' = runs + 1
    /\ store' = GlobalLinkerRun(store).st
    /\ hist' = [hist EXCEPT !.before = Some(store),
                            !.link = Some([GlobalLinkerRun(store) EXCEPT !.st = {}]),
                            !.fresh = TRUE,
                            !.again = hist.fresh]
    /\ UNCHANGED <<disk, now, phase, todo, chan, senders, coord, stats, edits>>

\* a reference a client of the storage API builds with ref_kind "inherits":
\* class D of b.py names its base f
InheritsRef ==
    PersistedUnresolvedReference(
        to_uri_string(SymbolUri(Repo, PathB, "container", <<"D">>, 1)),
        <<"f">>, None, PathB, 1, "inherits")

\* SqliteStore::insert_unresolved called through the storage API
InsertUnresolvedCall(u) ==
    /\ edits < MaxIndexed
    /\ edits' = edits + 1
    /\ store' = insert_unresolved(store, u)
    /\ hist' = [hist EXCEPT !.fresh = FALSE, !.again = FALSE]
    /\ UNCHANGED <<disk, now, phase, todo, chan, senders, coord, stats, runs>>

NextLink ==
    \/ \E p \in Paths : \E c \in QueryContentsOf(p) \cup {Absent} : LinkIndex(p, c)
    \/ InsertUnresolvedCall(InheritsRef)
    \/ StageA

SpecLink == InitLink /\ [][NextLink]_vars

\* ------------------------------------- the resolve command (Stages A, B)
\* the files indexed before a resolve; one holds more calls than a batch
ResolveContentsOf(path) ==
    IF path = PathA THEN {"def_f", "def_f_f"}
    ELSE IF path = PathB THEN {"g_calls_f", "g_calls_f_many"}
    ELSE {"h_calls_f"}

\* embeddings stored through insert_embedding for symbols x and y of a.py,
\* at 100, 80, 60 and 0 percent similarity to a call site
SeedEmbeddings ==
    {[uri |-> to_uri_string(SymbolUri(Repo, PathA, "callable", <<e[1]>>, e[2])),
      vector |-> e[3]] :
        e \in {<<"x", 1, <<5, 0>>>>, <<"x", 2, <<4, 3>>>>, <<"x", 3, <<3, 4>>>>,
               <<"x", 4, <<0, 5>>>>, <<"y", 1, <<5, 0>>>>, <<"y", 2, <<3, 4>>>>}}

InitResolve ==
    /\ store \in {[EmptyStore EXCEPT !.embeddings = seed] : seed \in {{}, SeedEmbeddings}}
    /\ disk = [p \in Paths |-> Absent]
    /\ now = 0
    /\ phase = "idle"
    /\ todo = {}
    /\ chan = <<>>
    /\ senders = [main |-> FALSE, workers |-> {}]
    /\ coord = [pc |-> "done", seen_paths |-> {}]
    /\ stats = ZeroStats
    /\ runs = 0
    /\ edits = 0
    /\ hist = NoHist

\* an edge from g to f stored through insert_edge in a store without edges
SeedEdge(e) ==
    /\ edits < MaxIndexed
    /\ store.edges = EmptyBag
    /\ edits' = edits + 1
    /\ store' = insert_edge(store, e)
    /\ UNCHANGED <<disk, now, phase, todo, chan, senders, coord, stats, runs, hist>>

\* the positions of the Stage B targets at which the store may fail
FailPoints == {0, 2, BatchSize + 1}

\* the end of the resolve command: mid is the store Stage B starts from and
\* b the result of SemanticLinker::run
ResolveEnd(mid, b, fail) ==
    /\ store' = b.st
    /\ hist' = [hist EXCEPT !.resolve = Some([start |-> store, mid |-> mid, end |-> b.st,
                                               fail |-> fail, ok |-> b.ok])]

ResolveFrom(mid, fail) == ResolveEnd(mid, SemanticLinkerRun(mid, fail), fail)

\* Commands::Resolve: nothing when no reference is unresolved; otherwise
\* GlobalLinker::run, ensure_embeddings, SemanticLinker::run
Resolve(fail) ==
    /\ runs < MaxStageA
    /\ runs' = runs + 1
    /\ IF count_unresolved(store) = 0
       THEN UNCHANGED <<store, hist>>
       ELSE ResolveFrom(EmbedMissing(GlobalLinkerRun(store).st), fail)
    /\ UNCHANGED <<disk, now, phase, todo, chan, senders, coord, stats, edits>>

\* a file that was not there is written and indexed
IndexNew(p, c) == disk[p] = Absent /\ LinkIndex(p, c)

NextResolve ==
    \/ \E p \in Paths : \E c \in ResolveContentsOf(p) : IndexNew(p, c)
    \/ \E c \in {30, 100} : SeedEdge(EdgeRow(UriG, UriF, "calls", c))
    \/ \E fail \in FailPoints : Resolve(fail)

SpecResolve == InitResolve /\ [][NextResolve]_vars

\* ------------------------------------------------------------ the claims
RowsOfTriple(e) == CountRows(store.edges, LAMBDA r : SameTriple(r, e))

\* C1: after any sequence of insert_edge calls, the confidence stored for a
\* triple (from_uri, to_uri, kind) is the maximum of the confidences of all
\* edges inserted with that triple, whichever order they were inserted in.
C1_EdgeKeepsMaxConfidence ==
    \A r \in DOMAIN store.edges :
        \A e \in hist.inserted : SameTriple(r, e) => r.confidence >= e.confidence

\* C2: after delete_file_data(p) has returned successfully, no symbol, edge,
\* embedding, import, unresolved reference, ambiguous row or file-hash row
\* references p or a URI whose path is p.
C2_DeleteLeavesNoRow == hist.delLeft = {}

\* C3: delete_file_data(p) is a single transactional step: when it fails
\* part-way, none of the rows of p has been removed.
C3_DeleteIsAtomic == ~hist.partial

\* C4: after any sequence of index runs and resolver runs, the from_uri and
\* the to_uri of every stored edge are the uri of a stored symbol.
C4_NoDanglingEdge ==
    phase = "idle" =>
        \A r \in DOMAIN store.edges :
            /\ \E s \in store.symbols : s.uri = r.from_uri
            /\ \E s \in store.symbols : s.uri = r.to_uri

\* C5: after any sequence of insert_edge calls the store holds at most one
\* edge row per (from_uri, to_uri, kind) triple, and exactly one row for
\* every edge that has been inserted, also when it was inserted twice.
C5_OneRowPerTriple ==
    /\ \A r \in DOMAIN store.edges : RowsOfTriple(r) = 1
    /\ \A e \in hist.inserted : RowsOfTriple(e) = 1

C5_Witness == \E e \in hist.twice : RowsOfTriple(e) = 1

\* C6: when a file is re-indexed as Modified, no new row of the file is
\* written while a row of its previous version is still stored: the
\* delete_file_data that precedes the inserts has removed them all.
C6_ModifiedDeletesBeforeInsert == ~hist.stale

\* C7: a run that follows another with no file change in between classifies
\* every file Unchanged (unchanged = number of files, added = modified = 0)
\* and leaves the rows of symbols, edges and file_hash as the first run left
\* them (the directory holds no file that cannot be read).
C7_SecondRunIdentical ==
    (phase = "idle" /\ hist.quiet /\ hist.failed = 0) =>
        /\ stats.unchanged = hist.files
        /\ stats.added = 0
        /\ stats.modified = 0
        /\ hist.same

\* C8: once the sweep of a run is over, every previously indexed file that
\* was removed from disk is counted in deleted (deleted is their number when
\* every file of the walk could be read), and no symbols, edges, embeddings,
\* imports, unresolved_references or file_hash row refers to it.
C8_RemovedFileIsDeleted ==
    phase # "walk" =>
        /\ (hist.failed = 0 => stats.deleted = Cardinality(hist.gone))
        /\ \A p \in hist.gone :
              OwnRows(store, p) = NoRows

\* C9: the deletion sweep starts only after the coordinator has consumed
\* every message the workers sent in the run, and no message is handled
\* once the sweep has begun.
C9_SweepAfterAllMessages ==
    hist.swept => (hist.handled = hist.sent /\ chan = <<>> /\ ~hist.late)

C9_Witness == hist.swept /\ hist.sent >= 2 /\ stats.deleted >= 1

\* C10: while the files are indexed every store write is made by the
\* coordinator thread; the workers never write, and the main thread writes
\* only after it has joined the coordinator.
C10_OnlyCoordinatorWrites ==
    \A w \in hist.writers :
        w.thread = "coordinator" \/ (w.thread = "main" /\ w.joined)

C10_Witness ==
    /\ phase = "walk"
    /\ hist.sent >= 2
    /\ [thread |-> "coordinator", joined |-> FALSE] \in hist.writers
    /\ senders.workers # {}

\* C11: the worker-to-coordinator channel is bounded: some fixed capacity,
\* which does not grow with the directory, is never exceeded by the messages
\* sent and not yet received (a worker would block on a full channel).  The
\* capacities the model can tell from no bound at all are those smaller than
\* the number of files of the directory.
C11_ChannelIsBounded ==
    \E capacity \in 1..(Cardinality(Paths) - 1) : Len(chan) <= capacity

\* C12: at the end of an index run the errors counter is the number of files
\* of the walk whose read or parse failed.
C12_ErrorsCountFailedFiles ==
    (phase = "idle" /\ runs > 0) => stats.errors = hist.failed

\* the files of the directory that can be read
ReadableFiles == {p \in Files : Readable(disk[p])}

PreLink == Unwrap(hist.before)

\* C14: get_all_unresolved() returns exactly the unresolved references whose
\* is_external is false, so a Stage A run counts only those in its total, and
\* a reference that was marked external before the run is still there,
\* unchanged, after it (never bound, counted or modified).
C14_ExternalIsFinal ==
    hist.fresh =>
        /\ get_all_unresolved(PreLink) = {u \in PreLink.unresolved : ~u.is_external}
        /\ Unwrap(hist.link).total = count_unresolved(PreLink)
        /\ \A u \in PreLink.unresolved : u.is_external => u \in store.unresolved

\* C15: a Stage A run that immediately follows another Stage A run (nothing
\* indexed in between) leaves the edges, the unresolved references and the
\* ambiguous rows exactly as the first run left them.
C15_StageAIdempotent ==
    hist.again =>
        /\ store.edges = PreLink.edges
        /\ store.unresolved = PreLink.unresolved
        /\ store.ambiguous = PreLink.ambiguous

\* Stage A binds reference u of the store it started from: its lookup ends
\* with a single definite target and the source URI of u parses
Binds(u) == LinkLookup(PreLink, u).matched_uri # None /\ ParseOk(u.from_uri)

\* the edges row the spec gives for the bind of u
BoundEdge(u) ==
    [from_uri |-> u.from_uri,
     to_uri |-> to_uri_string(Unwrap(LinkLookup(PreLink, u).matched_uri)),
     kind |-> IF u.ref_kind = "inherits" THEN "inherits" ELSE "calls",
     confidence |-> 100]

\* C16: when a Stage A run binds a reference to a target, then after the run
\* the edges table holds exactly one row for (ref.from_uri, target, kind),
\* with kind inherits if ref_kind is inherits and calls otherwise and with
\* confidence 1.0, and the unresolved row of the reference is gone.
C16_BindInsertsEdgeAndDeletesRow ==
    hist.fresh =>
        \A u \in PreLink.unresolved :
            Binds(u) =>
                /\ BoundEdge(u) \in DOMAIN store.edges
                /\ CountRows(store.edges, LAMBDA r : SameTriple(r, BoundEdge(u))) = 1
                /\ \A v \in store.unresolved : v.id # u.id

\* a run that bound a call reference and an inherits reference
C16_Witness ==
    /\ hist.fresh
    /\ \E u, v \in PreLink.unresolved :
          /\ Binds(u) /\ u.ref_kind = "call"
          /\ Binds(v) /\ v.ref_kind = "inherits"
          /\ BoundEdge(u).kind = "calls" /\ BoundEdge(u) \in DOMAIN store.edges
          /\ BoundEdge(v).kind = "inherits" /\ BoundEdge(v) \in DOMAIN store.edges

\* the stored URI str is that of a symbol of the given kind
FromKind(str, kind) == ParseOk(str) /\ ParseUri(str).kind = kind

\* C17: a stored unresolved reference that leaves a class (a base-class
\* reference) has ref_kind "inherits" and one that leaves a callable (a call)
\* has ref_kind "call"; and a resolver edge that leaves a class is an
\* inherits edge, never a calls edge.
C17_BaseClassIsInherits ==
    /\ \A u \in store.unresolved :
          /\ FromKind(u.from_uri, "container") => u.ref_kind = "inherits"
          /\ FromKind(u.from_uri, "callable") => u.ref_kind = "call"
    /\ \A e \in DOMAIN store.edges :
          FromKind(e.from_uri, "container") => e.kind # "calls"

\* the candidates Stage A ends with for reference u of the store it started
\* from, when it has no single definite target
CandidatesOf(u) ==
    IF LinkLookup(PreLink, u).matched_uri # None THEN {}
    ELSE {to_uri_string(c) : c \in LinkLookup(PreLink, u).candidates}

\* the ambiguous rows of reference id that the run added to bag B0, giving B
AddedAmbiguous(B0, B, id) ==
    [r \in {x \in DOMAIN B : x.reference_id = id} |->
        B[r] - (IF r \in DOMAIN B0 THEN B0[r] ELSE 0)]

\* C18: when a Stage A run ends with several candidates and no single
\* definite target for a reference, the run adds exactly one ambiguous row
\* per distinct candidate, each with score 0.0, and no other ambiguous row of
\* the reference, and the unresolved row is still there with is_external =
\* false.
C18_AmbiguousRowsPerCandidate ==
    hist.fresh =>
        \A u \in PreLink.unresolved :
            CandidatesOf(u) # {} =>
                /\ \A r \in DOMAIN store.ambiguous :
                      r.reference_id = u.id =>
                          AddedAmbiguous(PreLink.ambiguous, store.ambiguous, u.id)[r]
                              = (IF r.candidate_uri \in CandidatesOf(u) /\ r.score = 0
                                 THEN 1 ELSE 0)
                /\ \A c \in CandidatesOf(u) :
                      [reference_id |-> u.id, candidate_uri |-> c, score |-> 0]
                          \in DOMAIN store.ambiguous
                /\ \E v \in store.unresolved : v.id = u.id /\ ~v.is_external

\* no symbol of the store Stage A started from has the name of reference u:
\* Step 3 finds nothing, and Steps 1 and 2, which look among the symbols of
\* that name, collected nothing
NothingNamed(u) == find_symbols_by_name(PreLink, u.name) = {}

\* C19: a Stage A run marks a reference external exactly when no step finds
\* a symbol for it. When Step 3 finds nothing and no candidate was collected
\* before, the row is kept with is_external = true and the run adds no edge
\* leaving the source of the reference and no ambiguous row for it;
\* otherwise the run leaves is_external of the row as it was.
C19_ExternalIffNothingFound ==
    hist.fresh =>
        \A u \in PreLink.unresolved :
            IF NothingNamed(u)
            THEN /\ [u EXCEPT !.is_external = TRUE] \in store.unresolved
                 /\ \A e \in DOMAIN store.edges :
                       e.from_uri = u.from_uri =>
                           e \in DOMAIN PreLink.edges /\ store.edges[e] = PreLink.edges[e]
                 /\ \A r \in DOMAIN store.ambiguous :
                       r.reference_id = u.id =>
                           AddedAmbiguous(PreLink.ambiguous, store.ambiguous, u.id)[r] = 0
            ELSE \A v \in store.unresolved : v.id = u.id => v.is_external = u.is_external

\* a run that marked external a reference that was not external before
C19_Witness ==
    /\ hist.fresh
    /\ \E u \in PreLink.unresolved :
          /\ ~u.is_external
          /\ NothingNamed(u)
          /\ [u EXCEPT !.is_external = TRUE] \in store.unresolved

\* C20: when Step 1 finds more than one symbol with the name of the
\* reference in its file, Stage A goes on with Steps 2 and 3: if the import
\* step then yields a single definite target (and the source of the
\* reference parses), the run binds the reference, so its row is gone and
\* the edge to that target is stored.
C20_LocalCandidatesContinue ==
    hist.fresh =>
        \A u \in PreLink.unresolved :
            \A t \in PreLink.symbols :
                ( /\ Cardinality(find_symbols_by_name_and_file(PreLink, u.name, u.file_path)) > 1
                  /\ ImportLoop(PreLink, u, get_imports_for_file(PreLink, u.file_path),
                                [matched_uri |-> None, candidates |-> {}]).matched_uri
                         = Some(ParseUri(t.uri))
                  /\ ParseOk(u.from_uri) )
                => /\ \A v \in store.unresolved : v.id # u.id
                   /\ \E e \in DOMAIN store.edges :
                         e.from_uri = u.from_uri /\ e.to_uri = t.uri

\* in store st the symbol with URI string target has an incoming contains
\* edge from a symbol named receiver
OwnedBy(st, target, receiver) ==
    \E c \in DOMAIN st.edges :
        /\ c.kind = "contains"
        /\ c.to_uri = target
        /\ \E s \in st.symbols : s.uri = c.from_uri /\ s.name = receiver

\* C21: for a reference with a receiver that reaches Step 3 (Steps 1 and 2
\* found nothing), the Stage A run binds it only to, and records as
\* candidates only, symbols that have an incoming contains edge from a
\* symbol named like the receiver.
C21_Step3FiltersByReceiver ==
    hist.fresh =>
        \A u \in PreLink.unresolved :
            (u.receiver # None /\ Undecided(LinkStep2(PreLink, u, LinkStep1(PreLink, u))))
            => /\ \A e \in DOMAIN store.edges :
                     (e.from_uri = u.from_uri /\ e \notin DOMAIN PreLink.edges)
                     => OwnedBy(PreLink, e.to_uri, Unwrap(u.receiver))
               /\ \A r \in DOMAIN store.ambiguous :
                     (r.reference_id = u.id
                      /\ AddedAmbiguous(PreLink.ambiguous, store.ambiguous, u.id)[r] > 0)
                     => OwnedBy(PreLink, r.candidate_uri, Unwrap(u.receiver))

\* C22: with a.py defining f and b.py holding `from a import f` and a call
\* f(), after both are indexed and Stage A has run, the reference of the call
\* was resolved by Step 2: the import step yields f of a.py as the single
\* target, the edge from the caller to f of a.py is stored with confidence
\* 1.0, the unresolved row is gone and no ambiguous row exists for it.
C22_FromImportResolvedByStep2 ==
    (hist.fresh /\ disk[PathA] = "def_f" /\ disk[PathB] = "g_from_a_calls_f")
    => \A u \in PreLink.unresolved :
          (u.from_uri = to_uri_string(UriG) /\ u.name = <<"f">>)
          => /\ LinkStep2(PreLink, u, LinkStep1(PreLink, u)).matched_uri = Some(UriF)
             /\ EdgeRow(UriG, UriF, "calls", 100) \in DOMAIN store.edges
             /\ \A v \in store.unresolved : v.id # u.id
             /\ \A r \in DOMAIN store.ambiguous : r.reference_id # u.id

\* the last run of the resolve command: the stores it started from (start),
\* Stage B started from (mid) and it left (end)
LastResolve == Unwrap(hist.resolve)

\* C23: a run of Stage A followed by Stage B leaves at least as many edges
\* as it found, and every edge it found is still stored with a confidence
\* that is not lower.
C23_ResolverMonotone ==
    hist.resolve # None =>
        /\ BagCardinality(LastResolve.end.edges) >= BagCardinality(LastResolve.start.edges)
        /\ \A e \in DOMAIN LastResolve.start.edges :
              \E e2 \in DOMAIN LastResolve.end.edges :
                  SameTriple(e2, e) /\ e2.confidence >= e.confidence

\* a run whose Stage B scored, at 80 percent, the target of an edge stored
\* with confidence 1.0, and left the edge as it was
C23_Witness ==
    /\ hist.resolve # None
    /\ LastResolve.ok
    /\ \E e \in DOMAIN LastResolve.start.edges :
          /\ e.kind = "calls" /\ e.confidence = 100
          /\ e \in DOMAIN LastResolve.end.edges
          /\ \E u \in LastResolve.mid.unresolved :
                /\ ~u.is_external /\ u.from_uri = e.from_uri
                /\ \E x \in LastResolve.mid.embeddings :
                      /\ x.uri = e.to_uri
                      /\ cosine_similarity(EmbedCallSite(u), x.vector) = 80

\* the similarity of reference u to the stored embedding x, in percent
ScoreOf(u, x) == cosine_similarity(EmbedCallSite(u), x.vector)

\* x is among the TopK best of the embeddings of st for reference u: it
\* reaches the threshold and fewer than TopK embeddings score higher
AmongBest(st, u, x) ==
    /\ ParseOk(x.uri)
    /\ ScoreOf(u, x) >= Threshold
    /\ Cardinality({y \in st.embeddings : ParseOk(y.uri) /\ ScoreOf(u, y) > ScoreOf(u, x)})
           < TopK

\* the edges rows Stage B of the last resolve run wrote
StageBEdges == DOMAIN LastResolve.end.edges \ DOMAIN LastResolve.mid.edges

\* C24: every edge Stage B writes goes from the source of a reference it
\* processed to a symbol whose embedding scores at least the threshold (0.6)
\* against the call site, with that score as confidence, and that symbol is
\* among the 5 best scoring ones; Stage B writes edges to at most 5 symbols
\* for the call sites of one source (they share one vector).
C24_ThresholdAndTopFive ==
    hist.resolve # None =>
        /\ \A e \in StageBEdges :
              \E u \in LastResolve.mid.unresolved :
                  /\ ~u.is_external
                  /\ u.from_uri = e.from_uri
                  /\ e.kind = "calls"
                  /\ \E x \in LastResolve.mid.embeddings :
                        /\ x.uri = e.to_uri
                        /\ AmongBest(LastResolve.mid, u, x)
                        /\ e.confidence = ScoreOf(u, x)
        /\ \A e \in StageBEdges :
              Cardinality({d \in StageBEdges : d.from_uri = e.from_uri}) <= TopK

\* a run in which Stage B wrote 5 edges for a source and left out a symbol
\* that reached the threshold, and another that did not reach it
C24_Witness ==
    /\ hist.resolve # None
    /\ \E e \in StageBEdges :
          /\ Cardinality({d \in StageBEdges : d.from_uri = e.from_uri}) = TopK
          /\ \E u \in LastResolve.mid.unresolved :
                /\ u.from_uri = e.from_uri
                /\ \E x, y \in LastResolve.mid.embeddings :
                      /\ ScoreOf(u, x) >= Threshold
                      /\ ScoreOf(u, y) < Threshold
                      /\ \A d \in DOMAIN LastResolve.end.edges :
                            d.from_uri = e.from_uri => d.to_uri \notin {x.uri, y.uri}

\* the reference u, processed between the stores pre and post, was settled
\* as its writes require: deleted when an edges row was written, kept and
\* marked external otherwise; the store end the run leaves shows the same
SettledAsWritten(pre, post, u, end) ==
    IF post.edges # pre.edges
    THEN /\ \A v \in post.unresolved : v.id # u.id
         /\ \A v \in end.unresolved : v.id # u.id
    ELSE /\ [u EXCEPT !.is_external = TRUE] \in post.unresolved
         /\ [u EXCEPT !.is_external = TRUE] \in end.unresolved

\* Stage B replayed one reference at a time from store pre, with the cached
\* embeddings cached: every reference of targets is settled as written
RECURSIVE SettledAll(_, _, _, _)
SettledNext(pre, post, cached, targets, end) ==
    /\ SettledAsWritten(pre, post, Head(targets), end)
    /\ SettledAll(post, cached, Tail(targets), end)

SettledAll(pre, cached, targets, end) ==
    targets = <<>>
    \/ SettledNext(pre, SemanticOne(pre, cached, Head(targets)).st, cached, targets, end)

\* C25: in a run of Stage B that completes, each reference it processes is
\* deleted when at least one edge was inserted for it, and otherwise kept
\* and marked is_external = true; the store the run leaves shows the same
\* outcome for the reference.
C25_DeletedIffEdgeInserted ==
    (hist.resolve # None /\ LastResolve.ok) =>
        SettledAll(LastResolve.mid, cached_symbols(LastResolve.mid),
                   SemanticTargets(LastResolve.mid), LastResolve.end)

\* a completed run in which the first reference got an edge and was deleted,
\* and the second, of the same source, found every edge stored already and
\* was kept and marked external
C25_Witness ==
    /\ hist.resolve # None
    /\ LastResolve.ok
    /\ Len(SemanticTargets(LastResolve.mid)) >= 2
    /\ SemanticTargets(LastResolve.mid)[1].from_uri = SemanticTargets(LastResolve.mid)[2].from_uri
    /\ \A v \in LastResolve.end.unresolved : v.id # SemanticTargets(LastResolve.mid)[1].id
    /\ \E e \in StageBEdges : e.from_uri = SemanticTargets(LastResolve.mid)[1].from_uri
    /\ [SemanticTargets(LastResolve.mid)[2] EXCEPT !.is_external = TRUE]
           \in LastResolve.end.unresolved

\* Stage B of the last resolve run over its first j whole batches, with a
\* store that works
CommittedBatches(j) ==
    SemanticBatches(LastResolve.mid, cached_symbols(LastResolve.mid),
                    SubSeq(SemanticTargets(LastResolve.mid), 1, j * BatchSize), 0)

get_edges_to(st, uri) ==
    {r \in DOMAIN st.edges : r.to_uri = to_uri_string(uri) /\ RowIsEdge(r)}

\* get_symbol: the symbol stored under uri, if any
get_symbol(st, uri) == SymbolsOf({r \in st.symbols : r.uri = to_uri_string(uri)})

\* the edge kinds impact_analysis follows, in the order of its loop
DependencyKinds == <<"calls", "references", "inherits">>

\* one edge of the inner loop of impact_analysis; s = [visited, queue,
\* results], from is the parsed source of the edge
ImpactEdge(st, s, edge, from, current_depth, depth, edge_kind) ==
    IF from \in s.visited THEN s
    ELSE [visited |-> s.visited \cup {from},
          results |-> IF get_symbol(st, from) # None
                      THEN Append(s.results, [symbol |-> Unwrap(get_symbol(st, from)),
                                              depth |-> current_depth + 1,
                                              edge_kind |-> edge_kind,
                                              confidence |-> edge.confidence])
                      ELSE s.results,
          queue |-> IF current_depth + 1 < depth
                    THEN Append(s.queue, <<from, current_depth + 1>>)
                    ELSE s.queue]

\* the edges of one kind, in the order the store returns them (the
\* statement has no ORDER BY; the model takes them in one fixed order)
RECURSIVE ImpactEdges(_, _, _, _, _, _)
ImpactNextEdge(st, s, edges, edge, current_depth, depth, edge_kind) ==
    ImpactEdges(st, ImpactEdge(st, s, edge, ParseUri(edge.from_uri), current_depth, depth,
                               edge_kind),
                edges \ {edge}, current_depth, depth, edge_kind)

ImpactEdges(st, s, edges, current_depth, depth, edge_kind) ==
    IF edges = {} \/ s.visited = {} THEN s
    ELSE ImpactNextEdge(st, s, edges, CHOOSE e \in edges : TRUE, current_depth, depth,
                        edge_kind)

\* for edge_kind in [Calls, References, Inherits]
RECURSIVE ImpactKinds(_, _, _, _, _, _)
ImpactKinds(st, s, current_uri, current_depth, depth, kinds) ==
    IF kinds = <<>> THEN s
    ELSE ImpactKinds(st,
                     ImpactEdges(st, s,
                                 {e \in get_edges_to(st, current_uri) : e.kind = Head(kinds)},
                                 current_depth, depth, Head(kinds)),
                     current_uri, current_depth, depth, Tail(kinds))

\* while let Some((current_uri, current_depth)) = queue.pop_front()
RECURSIVE ImpactLoop(_, _, _)
ImpactLoop(st, s, depth) ==
    IF s.queue = <<>> THEN s.results
    ELSE IF Head(s.queue)[2] > depth
         THEN ImpactLoop(st, [s EXCEPT !.queue = Tail(@)], depth)
         ELSE ImpactLoop(st, ImpactKinds(st, [s EXCEPT !.queue = Tail(@)], Head(s.queue)[1],
                                         Head(s.queue)[2], depth, DependencyKinds),
                         depth)

\* the comparator of results.sort_by: depth ascending, then confidence
\* descending
ImpactBefore(a, b) ==
    a.depth < b.depth \/ (a.depth = b.depth /\ a.confidence > b.confidence)

\* the stable sort of the results
RECURSIVE SortImpact(_)
InsertSorted(sorted, r) ==
    LET later == {i \in 1..Len(sorted) : ImpactBefore(r, sorted[i])}
        at == IF later = {} THEN Len(sorted) + 1 ELSE CHOOSE i \in later : \A j \in later : i <= j
    IN SubSeq(sorted, 1, at - 1) \o <<r>> \o SubSeq(sorted, at, Len(sorted))

SortImpact(results) ==
    IF results = <<>> THEN <<>>
    ELSE InsertSorted(SortImpact(SubSeq(results, 1, Len(results) - 1)), results[Len(results)])

\* QueryEngine::impact_analysis
impact_analysis(st, uri, depth) ==
    SortImpact(ImpactLoop(st, [visited |-> {uri}, queue |-> <<<<uri, 0>>>>, results |-> <<>>],
                          depth))

\* a depth test that lets the traversal go one level further
BeyondDepth(current_depth, depth) == current_depth > depth

\* traverse_edges: if current_depth >= depth { continue; }
AtDepth(current_depth, depth) == current_depth >= depth

\* traverse_edges: the edges of the current symbol in the direction asked
DirectedEdges(st, current_uri, kind, direction) ==
    {e \in (IF direction = "Outgoing" THEN get_edges_from(st, current_uri)
            ELSE get_edges_to(st, current_uri)) : e.kind = kind}

\* one edge of the inner loop of traverse_edges; next_uri is the parsed far
\* end of the edge
TraverseEdge(st, s, next_uri, current_depth, depth) ==
    IF next_uri \in s.visited THEN s
    ELSE [visited |-> s.visited \cup {next_uri},
          results |-> IF get_symbol(st, next_uri) # None
                      THEN Append(s.results, Unwrap(get_symbol(st, next_uri)))
                      ELSE s.results,
          queue |-> IF current_depth + 1 < depth
                    THEN Append(s.queue, <<next_uri, current_depth + 1>>)
                    ELSE s.queue]

RECURSIVE TraverseEdges(_, _, _, _, _, _)
TraverseNextEdge(st, s, edges, edge, direction, current_depth, depth) ==
    TraverseEdges(st,
                  TraverseEdge(st, s,
                               ParseUri(IF direction = "Outgoing" THEN edge.to_uri
                                        ELSE edge.from_uri),
                               current_depth, depth),
                  edges \ {edge}, direction, current_depth, depth)

TraverseEdges(st, s, edges, direction, current_depth, depth) ==
    IF edges = {} \/ s.visited = {} THEN s
    ELSE TraverseNextEdge(st, s, edges, CHOOSE e \in edges : TRUE, direction,
                          current_depth, depth)

RECURSIVE TraverseLoop(_, _, _, _, _)
TraverseLoop(st, s, kind, direction, depth) ==
    IF s.queue = <<>> THEN s.results
    ELSE IF AtDepth(Head(s.queue)[2], depth)
         THEN TraverseLoop(st, [s EXCEPT !.queue = Tail(@)], kind, direction, depth)
         ELSE TraverseLoop(st,
                           TraverseEdges(st, [s EXCEPT !.queue = Tail(@)],
                                         DirectedEdges(st, Head(s.queue)[1], kind, direction),
                                         direction, Head(s.queue)[2], depth),
                           kind, direction, depth)

\* QueryEngine::traverse_edges
traverse_edges(st, start, kind, direction, depth) ==
    TraverseLoop(st, [visited |-> {start}, queue |-> <<<<start, 0>>>>, results |-> <<>>],
                 kind, direction, depth)

find_callers(st, uri, depth) == traverse_edges(st, uri, "calls", "Incoming", depth)

find_callees(st, uri, depth) == traverse_edges(st, uri, "calls", "Outgoing", depth)

\* ------------------------------------------- the query engine on a graph
MaxGraph == 3

MaxDepth == 3

UriK == SymbolUri(Repo, PathB, "callable", <<"k">>, 3)

\* a URI edges may name although no symbol is stored under it
UriX == SymbolUri(Repo, PathA, "callable", <<"x">>, 4)

\* the edges the graph is built from: a chain k -> g -> f with the edges
\* that close cycles on it, a self loop, a path through the URI without a
\* symbol, and edges of the kinds inherits, references and contains
GraphEdges ==
    {EdgeRow(UriG, UriF, "calls", 100), EdgeRow(UriK, UriG, "calls", 70),
     EdgeRow(UriF, UriK, "calls", 100), EdgeRow(UriF, UriG, "calls", 100),
     EdgeRow(UriF, UriF, "calls", 100), EdgeRow(UriX, UriF, "calls", 100),
     EdgeRow(UriK, UriX, "calls", 100), EdgeRow(UriG, UriF, "inherits", 100),
     EdgeRow(UriK, UriG, "references", 100), EdgeRow(UriK, UriF, "contains", 100)}

InitQuery ==
    /\ store = InsertSymbols(EmptyStore, {SymbolRow(u, "def_f") : u \in {UriF, UriG, UriK}})
    /\ disk = [p \in Paths |-> Absent]
    /\ now = 0
    /\ phase = "idle"
    /\ todo = {}
    /\ chan = <<>>
    /\ senders = [main |-> FALSE, workers |-> {}]
    /\ coord = [pc |-> "done", seen_paths |-> {}]
    /\ stats = ZeroStats
    /\ runs = 0
    /\ edits = 0
    /\ hist = NoHist

GraphInsert(e) ==
    /\ BagCardinality(store.edges) < MaxGraph
    /\ store' = insert_edge(store, e)
    /\ hist' = [hist EXCEPT !.query = None]
    /\ UNCHANGED <<disk, now, phase, todo, chan, senders, coord, stats, runs, edits>>

\* a query leaves the store as it is; one query is observed at a time
Asked(op, uri, depth, results) ==
    /\ hist.query = None
    /\ hist' = [hist EXCEPT !.query = Some([op |-> op, uri |-> uri, depth |-> depth,
                                            results |-> results])]
    /\ UNCHANGED <<store, disk, now, phase, todo, chan, senders, coord, stats, runs, edits>>

ImpactQuery(uri, depth) == Asked("impact", uri, depth, impact_analysis(store, uri, depth))

CallersQuery(uri, depth) == Asked("callers", uri, depth, find_callers(store, uri, depth))

CalleesQuery(uri, depth) == Asked("callees", uri, depth, find_callees(store, uri, depth))

NextQuery ==
    \/ \E e \in GraphEdges : GraphInsert(e)
    \/ \E uri \in {UriF, UriG, UriK, UriX} : \E depth \in 0..MaxDepth :
          \/ ImpactQuery(uri, depth)
          \/ CallersQuery(uri, depth)
          \/ CalleesQuery(uri, depth)

SpecQuery == InitQuery /\ [][NextQuery]_vars

\* the last query asked of the engine; the store has not changed since
LastQuery == Unwrap(hist.query)

\* the URI strings one edge of kinds away from those of S, against the
\* edges (Incoming) or along them (Outgoing)
StepFrom(S, kinds, direction) ==
    {IF direction = "Outgoing" THEN e.to_uri ELSE e.from_uri :
        e \in {x \in DOMAIN store.edges :
                  /\ x.kind \in kinds
                  /\ (IF direction = "Outgoing" THEN x.from_uri ELSE x.to_uri) \in S}}

\* the URI strings at the far end of a path of 1 to d edges from those of S
RECURSIVE ReachIn(_, _, _, _)
ReachIn(S, kinds, direction, d) ==
    IF d = 0 THEN {}
    ELSE StepFrom(S, kinds, direction) \cup ReachIn(StepFrom(S, kinds, direction), kinds,
                                                   direction, d - 1)

\* the URI strings of the stored symbols, other than u, within d edges of u
StoredWithin(u, kinds, direction, d) ==
    {s.uri : s \in store.symbols} \cap (ReachIn({to_uri_string(u)}, kinds, direction, d)
                                           \ {to_uri_string(u)})

\* the number of edges of a shortest path between u and the URI string v
Distance(u, v, kinds, direction) ==
    CHOOSE d \in 1..(Cardinality(DOMAIN store.edges) + 1) :
        /\ v \in ReachIn({to_uri_string(u)}, kinds, direction, d)
        /\ v \notin ReachIn({to_uri_string(u)}, kinds, direction, d - 1)

ImpactKindSet == {"calls", "references", "inherits"}

\* C27: impact_analysis(u, depth) returns exactly the stored symbols (other
\* than u) from which u is reachable along 1 to depth edges of the kinds
\* calls, references and inherits, each once, each with the length of a
\* shortest such path as its depth, and none with a depth above depth.
C27_ImpactSetWithinDepth ==
    (hist.query # None /\ LastQuery.op = "impact") =>
        /\ {to_uri_string(LastQuery.results[i].symbol.uri) : i \in DOMAIN LastQuery.results}
               = StoredWithin(LastQuery.uri, ImpactKindSet, "Incoming", LastQuery.depth)
        /\ \A i, j \in DOMAIN LastQuery.results :
              LastQuery.results[i].symbol.uri = LastQuery.results[j].symbol.uri => i = j
        /\ \A i \in DOMAIN LastQuery.results :
              /\ LastQuery.results[i].depth <= LastQuery.depth
              /\ LastQuery.results[i].depth
                     = Distance(LastQuery.uri, to_uri_string(LastQuery.results[i].symbol.uri),
                                ImpactKindSet, "Incoming")

\* the same for the depths from 1 on, where it holds
ImpactSetFromDepthOne ==
    (hist.query # None /\ LastQuery.depth >= 1) => C27_ImpactSetWithinDepth

\* C28: find_callers(u, d) and find_callees(u, d) return exactly the stored
\* symbols joined to u by a path of 1 to d calls edges (towards u for the
\* callers, away from u for the callees), each at most once and never u, on
\* graphs with cycles as on others.
C28_CallersAndCallees ==
    (hist.query # None /\ LastQuery.op \in {"callers", "callees"}) =>
        /\ {to_uri_string(LastQuery.results[i].uri) : i \in DOMAIN LastQuery.results}
               = StoredWithin(LastQuery.uri, {"calls"},
                              IF LastQuery.op = "callers" THEN "Incoming" ELSE "Outgoing",
                              LastQuery.depth)
        /\ \A i, j \in DOMAIN LastQuery.results :
              LastQuery.results[i].uri = LastQuery.results[j].uri => i = j
        /\ \A i \in DOMAIN LastQuery.results : LastQuery.results[i].uri # LastQuery.uri

\* callers asked to depth 2 of a symbol that lies on a cycle of calls: the
\* answer holds a symbol two edges away and not the symbol itself
C28_Witness ==
    /\ hist.query # None
    /\ LastQuery.op = "callers"
    /\ LastQuery.depth = 2
    /\ to_uri_string(LastQuery.uri) \in ReachIn({to_uri_string(LastQuery.uri)}, {"calls"},
                                                "Incoming", 3)
    /\ \E i \in DOMAIN LastQuery.results :
          to_uri_string(LastQuery.results[i].uri)
              \notin StepFrom({to_uri_string(LastQuery.uri)}, {"calls"}, "Incoming")

\* ------------------------------------------------------ search_content
\* texts are sequences of characters here; ASCII lower case of a character
LowerChar(c) == IF c = "A" THEN "a" ELSE IF c = "B" THEN "b" ELSE c

\* str::split_whitespace: word is the word being read
RECURSIVE SplitWords(_, _)
SplitWords(text, word) ==
    IF text = <<>> THEN (IF word = <<>> THEN <<>> ELSE <<word>>)
    ELSE IF Head(text) = " "
         THEN (IF word = <<>> THEN <<>> ELSE <<word>>) \o SplitWords(Tail(text), <<>>)
         ELSE SplitWords(Tail(text), Append(word, Head(text)))

split_whitespace(text) == SplitWords(text, <<>>)

\* the LIKE operator of SQLite: % matches any run of characters, _ any one
\* character, and ASCII letters match without regard to case
RECURSIVE Like(_, _)
Like(pattern, text) ==
    IF pattern = <<>> THEN text = <<>>
    ELSE IF Head(pattern) = "%"
         THEN Like(Tail(pattern), text) \/ (text # <<>> /\ Like(pattern, Tail(text)))
         ELSE /\ text # <<>>
              /\ (Head(pattern) = "_" \/ LowerChar(Head(pattern)) = LowerChar(Head(text)))
              /\ Like(Tail(pattern), Tail(text))

\* (content LIKE ?i OR name LIKE ?i OR doc LIKE ?i) with ?i = %word%; a
\* NULL doc matches nothing
WordCondition(r, word) ==
    \/ Like(<<"%">> \o word \o <<"%">>, r.content)
    \/ Like(<<"%">> \o word \o <<"%">>, r.name)
    \/ (r.doc # None /\ Like(<<"%">> \o word \o <<"%">>, Unwrap(r.doc)))

\* the WHERE clause of search_content
SearchWhere(r, words, kind) ==
    /\ \A i \in 1..Len(words) : WordCondition(r, words[i])
    /\ (kind = None \/ r.kind = Unwrap(kind))

\* path.to_lowercase() on the paths of the model
PathLower(path) == [i \in 1..Len(path) |-> IF path[i] = "README.md" THEN "readme.md" ELSE path[i]]

\* characters: the file names of the model and the extension each ends with
Extensions ==
    {<<"a.py", ".py">>, <<"b.py", ".py">>, <<"c.py", ".py">>, <<"readme.md", ".md">>,
     <<"x.json", ".json">>, <<"y.lock", ".lock">>}

PathEndsWith(p, exts) == Len(p) > 0 /\ \E e \in exts : <<p[Len(p)], e>> \in Extensions

\* characters: the file names of the model that contain a given word
PathContains(p, words) == \E i \in 1..Len(p) : \E w \in words : <<p[i], w>> \in {<<"readme.md", "readme">>}

\* get_file_boost on the lowered path, in tenths
BoostOfLower(p) ==
    IF PathEndsWith(p, {".rs", ".py", ".js", ".ts", ".tsx", ".jsx", ".go", ".c", ".cpp", ".h"})
    THEN 12
    ELSE IF PathEndsWith(p, {".md", ".txt"}) \/ PathContains(p, {"readme"}) THEN 9
    ELSE IF PathEndsWith(p, {".json", ".yaml", ".yml", ".toml"}) THEN 7
    ELSE IF PathEndsWith(p, {".svg", ".png", ".lock", ".sum"})
            \/ PathContains(p, {"node_modules", "target/"}) THEN 5
    ELSE 10

get_file_boost(path) == BoostOfLower(PathLower(path))

\* the first n elements of a sequence (SQL LIMIT, Iterator::take)
Take(seq, n) == SubSeq(seq, 1, Min(n, Len(seq)))

\* a stable sort of symbols by file boost, descending
RECURSIVE SortByBoost(_)
InsertByBoost(sorted, r) ==
    LET later == {i \in 1..Len(sorted) : get_file_boost(r.path) > get_file_boost(sorted[i].path)}
        at == IF later = {} THEN Len(sorted) + 1 ELSE CHOOSE i \in later : \A j \in later : i <= j
    IN SubSeq(sorted, 1, at - 1) \o <<r>> \o SubSeq(sorted, at, Len(sorted))

SortByBoost(symbols) ==
    IF symbols = <<>> THEN <<>>
    ELSE InsertByBoost(SortByBoost(SubSeq(symbols, 1, Len(symbols) - 1)), symbols[Len(symbols)])

\* query_map(row_to_symbol).filter_map(|r| r.ok()) on a sequence of rows
SymbolsOfSeq(rows) ==
    LET ok == SelectSeq(rows, RowIsSymbol) IN [i \in 1..Len(ok) |-> row_to_symbol(ok[i])]

\* characters: the byte order of the paths of the model
PathRank(path) ==
    IF path = <<"README.md">> THEN 1 ELSE IF path = PathA THEN 2 ELSE IF path = PathB THEN 3
    ELSE 4

\* ORDER BY path ASC, line_start ASC
RecentBefore(a, b) ==
    PathRank(a.path) < PathRank(b.path)
    \/ (PathRank(a.path) = PathRank(b.path) /\ a.line_start < b.line_start)

RECURSIVE SortRecent(_)
InsertRecent(sorted, r) ==
    LET later == {i \in 1..Len(sorted) : RecentBefore(r, sorted[i])}
        at == IF later = {} THEN Len(sorted) + 1 ELSE CHOOSE i \in later : \A j \in later : i <= j
    IN SubSeq(sorted, 1, at - 1) \o <<r>> \o SubSeq(sorted, at, Len(sorted))

SortRecent(rows) ==
    IF rows = <<>> THEN <<>>
    ELSE InsertRecent(SortRecent(SubSeq(rows, 1, Len(rows) - 1)), rows[Len(rows)])

\* get_recent_symbols; scan is the table in the order SQLite reads it
get_recent_symbols(scan, limit) == SymbolsOfSeq(Take(SortRecent(scan), limit))

\* search_content for a query with words: the statement has no ORDER BY,
\* so LIMIT keeps the first rows of the scan that satisfy WHERE; the sort by
\* boost comes after
SearchWords(scan, words, kind, limit) ==
    SortByBoost(SymbolsOfSeq(Take(SelectSeq(scan, LAMBDA r : SearchWhere(r, words, kind)),
                                  limit)))

\* SqliteStore::search_content
search_content(scan, query, kind, limit) ==
    IF split_whitespace(query) = <<>> THEN get_recent_symbols(scan, limit)
    ELSE SearchWords(scan, split_whitespace(query), kind, limit)

\* --------------------------------------------- search_content on a store
MaxLimit == 2

\* Symbol::new with a doc comment, as the row insert_symbol binds
DocRow(path, kind, name, line, content, doc) ==
    [doc |-> doc] @@ SymbolRow(SymbolUri(Repo, path, kind, name, line), content)

\* the symbols of the store: AB in README.md, ab in a.py, c in b.py whose
\* content is axb and whose doc is b, a in x.json whose doc is ab
SearchSymbols ==
    {DocRow(<<"README.md">>, "namespace", <<"A", "B">>, 1, <<"a", "b">>, None),
     DocRow(PathA, "callable", <<"a", "b">>, 1, <<"x">>, None),
     DocRow(PathB, "callable", <<"c">>, 2, <<"a", "x", "b">>, Some(<<"b">>)),
     DocRow(<<"x.json">>, "value", <<"a">>, 1, <<"z">>, Some(<<"a", "b">>))}

\* the queries: empty, blank, one word, two words, a word that no symbol
\* holds, and words with the characters _ and %
SearchQueries ==
    {<<>>, <<" ">>, <<"a", "b">>, <<"a", " ", " ", "b">>, <<"a", " ", "q">>, <<"a", "_", "b">>,
     <<"%">>}

\* the orders in which a scan can return the rows of a table
ScanOrders(rows) ==
    {f \in [1..Cardinality(rows) -> rows] : \A i, j \in 1..Cardinality(rows) : f[i] = f[j] => i = j}

InitSearch ==
    /\ store = EmptyStore
    /\ disk = [p \in Paths |-> Absent]
    /\ now = 0
    /\ phase = "idle"
    /\ todo = {}
    /\ chan = <<>>
    /\ senders = [main |-> FALSE, workers |-> {}]
    /\ coord = [pc |-> "done", seen_paths |-> {}]
    /\ stats = ZeroStats
    /\ runs = 0
    /\ edits = 0
    /\ hist = NoHist

AddSymbol(row) ==
    /\ row \notin store.symbols
    /\ store' = insert_symbol(store, row)
    /\ hist' = [hist EXCEPT !.search = None]
    /\ UNCHANGED <<disk, now, phase, todo, chan, senders, coord, stats, runs, edits>>

\* a search leaves the store as it is; one search is observed at a time
SearchContent(query, kind, limit, scan) ==
    /\ hist.search = None
    /\ hist' = [hist EXCEPT !.search =
                   Some([query |-> query, kind |-> kind, limit |-> limit,
                         results |-> search_content(scan, query, kind, limit)])]
    /\ UNCHANGED <<store, disk, now, phase, todo, chan, senders, coord, stats, runs, edits>>

NextSearch ==
    \/ \E row \in SearchSymbols : AddSymbol(row)
    \/ \E query \in SearchQueries : \E kind \in {None, Some("callable"), Some("namespace")} :
          \E limit \in 0..MaxLimit : \E scan \in ScanOrders(store.symbols) :
              SearchContent(query, kind, limit, scan)

SpecSearch == InitSearch /\ [][NextSearch]_vars

\* the last search; the store has not changed since
LastSearch == Unwrap(hist.search)

\* text holds word as a run of characters, ASCII case aside
HasWord(text, word) ==
    \E i \in 0..(Len(text) - Len(word)) :
        \A k \in 1..Len(word) : LowerChar(text[i + k]) = LowerChar(word[k])

\* C29: search_content(query, kind, limit) returns at most limit symbols;
\* each holds every whitespace-separated word of the query as a substring of
\* its name, content or doc, and has the kind asked for when one is given.
C29_EveryTokenInEveryResult ==
    hist.search # None =>
        /\ Len(LastSearch.results) <= LastSearch.limit
        /\ \A i \in DOMAIN LastSearch.results :
              /\ \A w \in DOMAIN split_whitespace(LastSearch.query) :
                    \/ HasWord(LastSearch.results[i].name, split_whitespace(LastSearch.query)[w])
                    \/ HasWord(LastSearch.results[i].content,
                               split_whitespace(LastSearch.query)[w])
                    \/ /\ LastSearch.results[i].doc # None
                       /\ HasWord(Unwrap(LastSearch.results[i].doc),
                                  split_whitespace(LastSearch.query)[w])
              /\ LastSearch.kind # None => LastSearch.results[i].kind = Unwrap(LastSearch.kind)

\* the symbols a search selects from: those that satisfy its WHERE clause,
\* every symbol for a query without words
Selected ==
    IF split_whitespace(LastSearch.query) = <<>> THEN store.symbols
    ELSE {r \in store.symbols :
             SearchWhere(r, split_whitespace(LastSearch.query), LastSearch.kind)}

\* C30: the result of search_content is in non-increasing order of file
\* boost, and no selected symbol left out of it has a higher boost than a
\* symbol in it.
C30_RankedByBoostThenLimited ==
    hist.search # None =>
        /\ \A i, j \in DOMAIN LastSearch.results :
              i < j => get_file_boost(LastSearch.results[i].path)
                           >= get_file_boost(LastSearch.results[j].path)
        /\ \A r \in Selected :
              (\A i \in DOMAIN LastSearch.results :
                   to_uri_string(LastSearch.results[i].uri) # r.uri)
              => \A i \in DOMAIN LastSearch.results :
                    get_file_boost(r.path) <= get_file_boost(LastSearch.results[i].path)

\* ------------------------------------------- insert_embedding on a store
\* the vectors a caller passes: three of length 2 and two of length 3
EmbedVectors == {<<5, 0>>, <<4, 3>>, <<0, 5>>, <<1, 2, 2>>, <<3, 0, 4>>}

InitEmbed == InitSearch

\* insert_embedding(uri, vector): the statement is the whole function, and
\* it returns Ok when the statement does
InsertEmbeddingCall(uri, vector) ==
    /\ store' = insert_embedding(store, uri, vector)
    /\ hist' = [hist EXCEPT !.embed = Some([vector |-> vector, pre |-> store.embeddings,
                                            ok |-> TRUE])]
    /\ UNCHANGED <<disk, now, phase, todo, chan, senders, coord, stats, runs, edits>>

NextEmbed == \E uri \in {UriF, UriG, UriK} : \E vector \in EmbedVectors :
                 InsertEmbeddingCall(uri, vector)

SpecEmbed == InitEmbed /\ [][NextEmbed]_vars

\* the last call of insert_embedding
LastEmbed == Unwrap(hist.embed)

\* C31: the symbol embeddings of a store all have one vector length, and a
\* call of insert_embedding with a vector whose length differs from that of
\* an embedding already stored returns an error and leaves the embeddings as
\* they were.
C31_OneVectorLength ==
    /\ \A a, b \in store.embeddings : Len(a.vector) = Len(b.vector)
    /\ hist.embed # None =>
          ((\E e \in LastEmbed.pre : Len(e.vector) # Len(LastEmbed.vector))
           => (~LastEmbed.ok /\ store.embeddings = LastEmbed.pre))

\* ------------------------------------------------ SymbolUri on its own
\* the components SymbolUri::new is given: repositories, paths with a
\* directory, with the character # and empty, names with each separator
UriRepos == {<<"r">>, <<"r", "#", "s">>}

UriPaths == {PathA, <<"d", "/", "a.py">>, PathC, <<>>}

UriNames == {<<"f">>, <<"a", ":", "b">>, <<"a", "#", "b">>, <<"a", "@", "b">>, <<>>}

UriInputs ==
    {SymbolUri(repo, path, kind, name, line) :
        repo \in UriRepos, path \in UriPaths, kind \in SymbolKinds, name \in UriNames,
        line \in 1..Len(Digits)}

InitUri ==
    /\ store = EmptyStore
    /\ disk = [p \in Paths |-> Absent]
    /\ now = 0
    /\ phase = "idle"
    /\ todo = {}
    /\ chan = <<>>
    /\ senders = [main |-> FALSE, workers |-> {}]
    /\ coord = [pc |-> "done", seen_paths |-> {}]
    /\ stats = ZeroStats
    /\ runs = 0
    /\ edits = 0
    /\ \E u \in UriInputs : hist = [NoHist EXCEPT !.uri = Some([u |-> u, parsed |-> None])]

\* SymbolUri::parse(&u.to_uri_string())
RoundTrip ==
    /\ Unwrap(hist.uri).parsed = None
    /\ hist' = [hist EXCEPT !.uri = Some([u |-> Unwrap(hist.uri).u,
                                          parsed |-> Some(ParseUri(to_uri_string(
                                                              Unwrap(hist.uri).u)))])]
    /\ UNCHANGED <<store, disk, now, phase, todo, chan, senders, coord, stats, runs, edits>>

SpecUri == InitUri /\ [][RoundTrip]_vars

\* C32: for a SymbolUri u with line >= 1, a repo without "/" and a name
\* without "@", SymbolUri::parse(u.to_uri_string()) succeeds and returns u.
C32_UriRoundTrip ==
    (hist.uri # None /\ Unwrap(hist.uri).parsed # None) =>
        (( /\ Unwrap(hist.uri).u.line >= 1
           /\ FirstIndex(Unwrap(hist.uri).u.repo, "/") = 0
           /\ FirstIndex(Unwrap(hist.uri).u.name, "@") = 0 )
         => Unwrap(hist.uri).parsed = Some(Unwrap(hist.uri).u))

\* the same for the URIs that have no "#" in the repo and the path either
RoundTripWithoutHash ==
    (hist.uri # None /\ Unwrap(hist.uri).parsed # None) =>
        (( /\ FirstIndex(Unwrap(hist.uri).u.repo, "/") = 0
           /\ FirstIndex(Unwrap(hist.uri).u.repo, "#") = 0
           /\ FirstIndex(Unwrap(hist.uri).u.path, "#") = 0 )
         => Unwrap(hist.uri).parsed = Some(Unwrap(hist.uri).u))

\* ------------------------------------------------ the document chunker
\* an ASCII text is given by its lines, each a record [n, sp]: n characters
\* that are neither newline nor space, but for a space at position sp when
\* sp > 0; the lines are joined by "\n" and trailing tells whether the text
\* ends with one. A chunk is the range [from, to) of byte offsets of the
\* text its content was copied from.
DEFAULT_CHUNK_SIZE == 1000

DEFAULT_OVERLAP == 100

MIN_CHUNK_SIZE == 100

ScanWindow == 500

RECURSIVE LineStart(_, _)
LineStart(lines, i) == IF i = 1 THEN 0 ELSE LineStart(lines, i - 1) + lines[i - 1].n + 1

LineEnd(lines, i) == LineStart(lines, i) + lines[i].n

\* content.len()
ContentLen(text) ==
    IF text.lines = <<>> THEN 0
    ELSE LineEnd(text.lines, Len(text.lines)) + (IF text.trailing THEN 1 ELSE 0)

\* the offsets of the newline characters and of the spaces of the text
Newlines(text) ==
    {LineEnd(text.lines, i) : i \in {j \in 1..Len(text.lines) : j < Len(text.lines) \/ text.trailing}}

Spaces(text) ==
    {LineStart(text.lines, i) + text.lines[i].sp - 1 :
        i \in {j \in 1..Len(text.lines) : text.lines[j].sp > 0}}

MaxOf(S) == CHOOSE x \in S : \A y \in S : y <= x

\* str::rfind in the search area [start_scan, end_scan) of the chunk that
\* starts at offset s: the positions, relative to the chunk, where a
\* paragraph break, a newline and a space begin
ParagraphBreaks(text, s, start_scan, end_scan) ==
    {p \in start_scan..(end_scan - 2) : s + p \in Newlines(text) /\ s + p + 1 \in Newlines(text)}

NewlinesIn(text, s, start_scan, end_scan) ==
    {p \in start_scan..(end_scan - 1) : s + p \in Newlines(text)}

SpacesIn(text, s, start_scan, end_scan) ==
    {p \in start_scan..(end_scan - 1) : s + p \in Spaces(text)}

\* find_break_point after the scan window is fixed
BreakInWindow(text, s, len, start_scan, end_scan) ==
    IF start_scan >= len THEN len
    ELSE IF ParagraphBreaks(text, s, start_scan, end_scan) # {}
         THEN MaxOf(ParagraphBreaks(text, s, start_scan, end_scan)) + 2
    ELSE IF NewlinesIn(text, s, start_scan, end_scan) # {}
         THEN MaxOf(NewlinesIn(text, s, start_scan, end_scan)) + 1
    ELSE IF SpacesIn(text, s, start_scan, end_scan) # {}
         THEN MaxOf(SpacesIn(text, s, start_scan, end_scan)) + 1
    ELSE Min(DEFAULT_CHUNK_SIZE, len)

\* DocumentChunker::find_break_point on the chunk [s, e) (every offset of
\* an ASCII text is a char boundary)
find_break_point(text, s, e) ==
    BreakInWindow(text, s, e - s,
                  IF DEFAULT_CHUNK_SIZE > ScanWindow THEN DEFAULT_CHUNK_SIZE - ScanWindow ELSE 0,
                  Min(DEFAULT_CHUNK_SIZE + ScanWindow, e - s))

\* the chunk is full: split at the break point and keep the overlap, or
\* emit it whole and start afresh; c = [chunks, s, e]
SplitAtBreak(c, break_at) ==
    IF break_at < c.e - c.s /\ break_at > MIN_CHUNK_SIZE
    THEN [chunks |-> Append(c.chunks, [from |-> c.s, to |-> c.s + break_at]),
          s |-> c.s + (IF break_at > DEFAULT_OVERLAP THEN break_at - DEFAULT_OVERLAP ELSE 0),
          e |-> c.e]
    ELSE [chunks |-> Append(c.chunks, [from |-> c.s, to |-> c.e]), s |-> c.e, e |-> c.e]

\* one line of the loop: the line is added to the current chunk (after a
\* "\n" when the chunk is not empty), then the size is tested
AddLine(text, c, i) ==
    IF c.e = c.s
    THEN [c EXCEPT !.s = LineStart(text.lines, i), !.e = LineEnd(text.lines, i)]
    ELSE [c EXCEPT !.e = LineEnd(text.lines, i)]

AfterLine(text, c) ==
    IF c.e - c.s >= DEFAULT_CHUNK_SIZE THEN SplitAtBreak(c, find_break_point(text, c.s, c.e))
    ELSE c

RECURSIVE ChunkLines(_, _, _)
ChunkLines(text, c, i) ==
    IF i > Len(text.lines) THEN c
    ELSE ChunkLines(text, AfterLine(text, AddLine(text, c, i)), i + 1)

\* the last chunk is kept when it has at least MIN_CHUNK_SIZE bytes
LastChunk(c) ==
    IF c.e > c.s /\ c.e - c.s >= MIN_CHUNK_SIZE
    THEN Append(c.chunks, [from |-> c.s, to |-> c.e])
    ELSE c.chunks

\* DocumentChunker::split_into_chunks: the byte ranges of the chunks
split_into_chunks(text) ==
    IF text.lines = <<>> THEN <<>>
    ELSE IF ContentLen(text) <= DEFAULT_CHUNK_SIZE
         THEN <<[from |-> 0, to |-> ContentLen(text)]>>
    ELSE LastChunk(ChunkLines(text, [chunks |-> <<>>, s |-> 0, e |-> 0], 1))

\* ------------------------------------------------- the chunker on a text
MaxLines == 3

\* the lines of the texts: empty, short, just under and at the chunk size,
\* and longer than it without and with a space
ChunkLineKinds ==
    {[n |-> 0, sp |-> 0], [n |-> 50, sp |-> 0], [n |-> 450, sp |-> 0], [n |-> 999, sp |-> 0],
     [n |-> 1000, sp |-> 0], [n |-> 1200, sp |-> 0], [n |-> 1200, sp |-> 700]}

\* str::lines reads these texts back as the same lines: a text that does
\* not end with "\n" does not end with an empty line
ChunkTexts ==
    {t \in [lines : UNION {[1..k -> ChunkLineKinds] : k \in 1..MaxLines},
            trailing : BOOLEAN] :
        t.trailing \/ t.lines[Len(t.lines)].n > 0}

InitChunk ==
    /\ store = EmptyStore
    /\ disk = [p \in Paths |-> Absent]
    /\ now = 0
    /\ phase = "idle"
    /\ todo = {}
    /\ chan = <<>>
    /\ senders = [main |-> FALSE, workers |-> {}]
    /\ coord = [pc |-> "done", seen_paths |-> {}]
    /\ stats = ZeroStats
    /\ runs = 0
    /\ edits = 0
    /\ \E t \in ChunkTexts : hist = [NoHist EXCEPT !.chunk = Some([text |-> t, chunks |-> None])]

SplitText ==
    /\ Unwrap(hist.chunk).chunks = None
    /\ hist' = [hist EXCEPT !.chunk = Some([text |-> Unwrap(hist.chunk).text,
                                            chunks |-> Some(split_into_chunks(
                                                                Unwrap(hist.chunk).text))])]
    /\ UNCHANGED <<store, disk, now, phase, todo, chan, senders, coord, stats, runs, edits>>

SpecChunk == InitChunk /\ [][SplitText]_vars

\* the text that was split and the chunks it was split into
ChunkedText == Unwrap(hist.chunk).text

ChunksOut == Unwrap(Unwrap(hist.chunk).chunks)

\* the byte at offset b of the text lies in one of the chunks
Covered(b) == \E k \in DOMAIN ChunksOut : ChunksOut[k].from <= b /\ b < ChunksOut[k].to

\* C33: when the chunker has split a text into chunks, every byte of the
\* text lies in some chunk, so the parts of the successive chunks that do
\* not overlap their predecessor, put end to end, are the text.
C33_ChunksCoverInput ==
    (hist.chunk # None /\ Unwrap(hist.chunk).chunks # None /\ ChunksOut # <<>>) =>
        \A b \in 0..(ContentLen(ChunkedText) - 1) : Covered(b)

\* the same for the bytes that are not newline characters
ChunksCoverLines ==
    (hist.chunk # None /\ Unwrap(hist.chunk).chunks # None /\ ChunksOut # <<>>) =>
        \A b \in 0..(ContentLen(ChunkedText) - 1) : b \in Newlines(ChunkedText) \/ Covered(b)

\* ------------------------------------- the index command asked to cancel
\* the user asks for the run to be cancelled while the walk is under way.
\* The index command holds no cancel flag (the worker callback returns
\* WalkState::Continue on every path and the coordinator reads until the
\* channel closes), so the request is an observation only.
CancelRequested ==
    /\ phase = "walk"
    /\ ~hist.cancel
    /\ hist' = [hist EXCEPT !.cancel = TRUE]
    /\ UNCHANGED <<store, disk, now, phase, todo, chan, senders, coord, stats, runs, edits>>

NextCancel == Next \/ CancelRequested

SpecCancel == InitFault /\ [][NextCancel]_vars

\* C34: once cancellation has been requested in a run, no worker starts a
\* further file of that run (none is read, none is sent to the
\* coordinator), and the coordinator has drained the channel when the run
\* leaves the walk.
C34_NoFileAfterCancel ==
    [][(hist.cancel /\ hist'.cancel) =>
           /\ hist'.sent = hist.sent
           /\ hist'.failed = hist.failed
           /\ (phase = "walk" /\ phase' # "walk" => chan = <<>>)]_vars

\* the part of it that the code keeps: the channel is drained before the
\* run leaves the walk
DrainedAfterCancel ==
    [][(hist.cancel /\ phase = "walk" /\ phase' # "walk") =>
           (chan = <<>> /\ hist.handled = hist.sent)]_vars

\* ------------------------------------------ edges into a re-indexed file
\* the store after Stage B (ensure_embeddings, SemanticLinker::run) has
\* followed Stage A
AfterStageB(st) == SemanticLinkerRun(EmbedMissing(st), 0).st

HasTriple(st, e) == \E r \in DOMAIN st.edges : SameTriple(r, e)

\* C35: a calls edge from an unchanged file into a file that is modified and
\* re-indexed, and that still defines the target at the same URI, exists
\* again once the resolver stages have run after the re-index.
C35_BoundEdgeRestored ==
    hist.fresh => \A e \in hist.bound : HasTriple(AfterStageB(store), e)

\* Stage A has run after a re-index that met a bound edge
ReindexedUnderEdge == hist.fresh /\ hist.bound # {}

\* --------------------------------------------- the end of both stages
\* C36: when Stage A and then Stage B have completed without an error, every
\* reference the command started from is either gone, with an edge from its
\* source in the store, or marked external: count_unresolved() is 0.
C36_NoActiveReferenceLeft ==
    (hist.resolve # None /\ LastResolve.ok) =>
        /\ count_unresolved(LastResolve.end) = 0
        /\ \A u \in LastResolve.end.unresolved : u.is_external
        /\ \A u \in LastResolve.start.unresolved :
               \/ \E v \in LastResolve.end.unresolved : v.id = u.id /\ v.is_external
               \/ \E e \in DOMAIN LastResolve.end.edges :
                      e.from_uri = u.from_uri /\ e.kind \in {"calls", "inherits"}

\* a resolve command ended without error after Stage B had references left
\* by Stage A to work on, deleting one and marking another external
C36_Witness ==
    /\ hist.resolve # None
    /\ LastResolve.ok
    /\ count_unresolved(LastResolve.mid) > 1
    /\ \E u \in LastResolve.mid.unresolved :
           ~u.is_external /\ \A v \in LastResolve.end.unresolved : v.id # u.id
    /\ \E u \in LastResolve.mid.unresolved :
           ~u.is_external /\ \E v \in LastResolve.end.unresolved : v.id = u.id

\* ------------------------------------- ambiguous rows and their reference
\* the ambiguous rows of st whose reference_id names no unresolved row
Orphans(st) ==
    {a \in DOMAIN st.ambiguous : \A u \in st.unresolved : u.id # a.reference_id}

\* C37: when the resolver has run without an error, every ambiguous row of
\* the store refers to an unresolved reference that still exists: the rows
\* the resolver deleted have left no ambiguous row behind.
C37_AmbiguousRowHasReference ==
    (hist.resolve # None /\ LastResolve.ok) => Orphans(LastResolve.end) = {}

\* the same while a reference is only marked external, not deleted
NoOrphanWithoutDelete ==
    (/\ hist.resolve # None
     /\ LastResolve.ok
     /\ \A u \in LastResolve.mid.unresolved :
            \E v \in LastResolve.end.unresolved : v.id = u.id) =>
        Orphans(LastResolve.end) = Orphans(LastResolve.mid)

\* --------------------------------------- the sweep and an unreadable file
\* the files indexed by the previous run that are still on disk but whose
\* read fails in this run
UnreadableIndexed ==
    {p \in Paths : /\ disk[p] # Absent
                   /\ ~Readable(disk[p])
                   /\ \E r \in Unwrap(hist.prev).file_hash : r.path = p}

\* C38: after the deletion sweep, a file that was indexed before, is still
\* on disk and could not be read in this run has all the rows it had, and
\* the sweep has counted only the files that are gone from disk.
C38_UnreadableFileKept ==
    (phase = "link" /\ hist.prev # None) =>
        \A p \in UnreadableIndexed :
            /\ {r \in Unwrap(hist.prev).symbols : r.path = p} \subseteq store.symbols
            /\ \E r \in store.file_hash : r.path = p
            /\ stats.deleted = Cardinality(hist.gone)

\* the sweep deletes exactly the indexed files that sent no message: the
\* files gone from disk and the files whose read failed
SweepCountsUnseen ==
    (phase = "link" /\ hist.prev # None) =>
        stats.deleted = Cardinality(hist.gone) + Cardinality(UnreadableIndexed)

\* ------------------------------- the index command with a failing parse
\* the message of a worker whose adapter returned an error for the file:
\* `adapter.parse_file(..).ok()` is None
FailedParseMessage(st, relative_path, content) ==
    [WorkerMessage(st, relative_path, content) EXCEPT !.result = None]

\* a worker takes a new or modified file that its adapter fails to parse
\* (LanguageAdapter::parse_file returns a Result); the message is sent all
\* the same
WorkerParseFails(w, p) ==
    /\ phase = "walk"
    /\ w \in senders.workers
    /\ p \in todo
    /\ Readable(disk[p])
    /\ FileStatus(store, p, Blake3(disk[p])) # "Unchanged"
    /\ chan' = Append(chan, FailedParseMessage(store, p, disk[p]))
    /\ todo' = todo \ {p}
    /\ hist' = [hist EXCEPT !.sent = @ + 1, !.unparsed = @ \cup {p}]
    /\ UNCHANGED <<store, disk, now, phase, senders, coord, stats, runs, edits>>

NextParse == Next \/ \E w \in Workers : \E p \in Paths : WorkerParseFails(w, p)

SpecParse == InitFault /\ [][NextParse]_vars

\* C39: when a run has ended in which the parse of a file failed, the hash
\* of that content is not in file_hash: a next run over the same bytes does
\* not find the file Unchanged.
C39_FailedParseNotRecorded ==
    (phase = "idle" /\ ~hist.changed) =>
        \A p \in hist.unparsed :
            /\ get_file_hash(store, p) # Blake3(disk[p])
            /\ FileStatus(store, p, Blake3(disk[p])) # "Unchanged"

\* what the code does: the hash of a file is recorded whether or not its
\* parse succeeded, so the next run finds the file Unchanged
FailedParseIsRecorded ==
    (phase = "idle" /\ ~hist.changed) =>
        \A p \in hist.unparsed : FileStatus(store, p, Blake3(disk[p])) = "Unchanged"

\* ------------------------------------------ the channel of an index run
\* `for msg in rx` receives: what a step of CoordHandle does to the channel
CoordReceives == coord.pc = "recv" /\ chan # <<>> /\ chan' = Tail(chan)

\* coordinator.join() returns and the sweep follows: what a step of Sweep
\* does to the phase
MainJoins == phase = "walk" /\ ~senders.main /\ CoordinatorJoined(coord) /\ phase' = "link"

\* every thread of a run is scheduled again and again: the walker workers
\* (the walk goes on while files are left), the main thread (drop(tx), join
\* and sweep) and the coordinator, which blocks only on the channel.  The
\* steps of CoordHandle and Sweep are named by what they do to chan and to
\* phase: no other step of Next takes the head off the channel or leaves
\* the walk.
RunFairness ==
    /\ WF_vars(\E w \in Workers : \E p \in Paths : WorkerFile(w, p))
    /\ WF_vars(WalkerDone)
    /\ WF_vars(MainDropTx)
    /\ WF_chan(CoordReceives)
    /\ WF_vars(CoordEnd)
    /\ WF_phase(MainJoins)

\* index runs over a directory that is not edited between them
NextLive ==
    \/ \E dt \in {0, 1} : StartRun(dt)
    \/ \E w \in Workers : \E p \in Paths : WorkerFile(w, p)
    \/ WalkerDone
    \/ MainDropTx
    \/ CoordHandle
    \/ CoordEnd
    \/ Sweep
    \/ GlobalLink
    \/ Embed
    \/ SemanticLink

SpecLive == Init /\ [][NextLive]_vars /\ RunFairness

\* the coordinator loop has ended: nothing is left in the channel, it has
\* handled as many messages as were sent, each counted once and each for a
\* path of its own
ConsumedOnce ==
    coord.pc = "done" =>
        /\ chan = <<>>
        /\ hist.handled = hist.sent
        /\ (phase = "walk" =>
               /\ stats.unchanged + stats.added + stats.modified = hist.sent
               /\ Cardinality(coord.seen_paths) = hist.sent)

\* C40: every message a worker sends is consumed by the coordinator exactly
\* once, and every run that has started reaches the end of the coordinator
\* loop (with the channel closed and empty) and then its sweep: a run never
\* deadlocks and never ends with messages left in the channel.
C40_MessagesConsumedOnce ==
    /\ []ConsumedOnce
    /\ (phase = "walk") ~> (coord.pc = "done" /\ phase # "walk")

\* the coordinator loop of a run has ended after handling two messages and
\* before the sweep
C40_Witness ==
    /\ phase = "walk"
    /\ runs > 0
    /\ coord.pc = "done"
    /\ hist.handled >= 2
    /\ ~senders.main

====
